------------------------------ MODULE LiveProofs ------------------------------
(***************************************************************************)
(* Proofs about Frames and LiveGraph, for every device, every set of       *)
(* powers and every size of the buffer, of the graph and of the requests   *)
(* under way.                                                              *)
(***************************************************************************)
EXTENDS LiveGraph, SequenceTheorems, TLAPS

(***************************************************************************)
(* Sequences.                                                              *)
(***************************************************************************)

\* Removing an element leaves a sequence one shorter.
LEMMA RemoveAtProperties ==
    ASSUME NEW S, NEW s \in Seq(S), NEW i \in DOMAIN s
    PROVE  /\ RemoveAt(s, i) \in Seq(S)
           /\ Len(RemoveAt(s, i)) = Len(s) - 1
<1>1. Len(s) \in Nat /\ i \in 1..Len(s)
  BY LenProperties
<1>2. /\ SubSeq(s, 1, i - 1) \in Seq(S)
      /\ Len(SubSeq(s, 1, i - 1)) = i - 1
  <2>1. \A j \in 1..(i - 1) : s[j] \in S
    BY <1>1, ElementOfSeq
  <2> QED BY <1>1, <2>1, SubSeqProperties
<1>3. /\ SubSeq(s, i + 1, Len(s)) \in Seq(S)
      /\ Len(SubSeq(s, i + 1, Len(s))) = Len(s) - i
  <2>1. \A j \in (i + 1)..Len(s) : s[j] \in S
    BY <1>1, ElementOfSeq
  <2> QED BY <1>1, <2>1, SubSeqProperties
<1> DEFINE before == SubSeq(s, 1, i - 1)
<1> DEFINE after == SubSeq(s, i + 1, Len(s))
<1>4. /\ before \o after \in Seq(S)
      /\ Len(before \o after) = Len(before) + Len(after)
  <2> HIDE DEF before, after
  <2>1. before \in Seq(S) /\ after \in Seq(S)
    BY <1>2, <1>3 DEF before, after
  <2> QED BY <2>1, ConcatProperties
<1>5. Len(before \o after) = Len(s) - 1
  BY <1>1, <1>2, <1>3, <1>4
<1>6. RemoveAt(s, i) = before \o after
  BY DEF RemoveAt
<1> QED BY <1>4, <1>5, <1>6

(***************************************************************************)
(* The .live file.                                                         *)
(***************************************************************************)

\* The device, the power kept by the daemon and the file keep their shape.
LiveShape ==
    /\ clock \in 1..LastMinute
    /\ start \in 1..(LastMinute + 1) /\ next \in 1..(LastMinute + 1)
    /\ watts \in Powers \cup {NoPower}
    /\ live \in Contents /\ writing \in Contents \cup {Closed}

\* What a step is, as far as the daemon and the device are concerned.
LEMMA FrameSteps ==
    ASSUME [Next]_vars
    PROVE  FramesNext \/ UNCHANGED frameVars
BY DEF Next, PageNext, LoadPage, Poll, Serve, Receive, Lose, vars

\* What is written is a reading of a minute of the device, or nothing.
LEMMA OpenLiveShape ==
    ASSUME LiveShape, NEW f, f.minute \in 0..LastMinute,
           NEW w \in Powers \cup {NoPower}, OpenLive(f, w)
    PROVE  /\ live' \in Contents
           /\ writing' \in Contents \cup {Closed}
BY FramesAssumption DEF LiveShape, OpenLive, Contents, Never, NoPower, Empty

\* The frames of a minute of the device are of that minute or of none.
LEMMA FrameMinutes ==
    ASSUME NEW m \in 1..LastMinute, NEW f \in DbFrames(m) \cup LiveFrames(m)
    PROVE  f.minute \in {m, Never}
BY DEF DbFrames, LiveFrames, Good, BadMonth, BadDate

LEMMA LiveShapeInit == Init => LiveShape
BY FramesAssumption DEF Init, FramesInit, LiveShape, Contents, Closed

\* Every step keeps the shape.
LEMMA LiveShapeStep ==
    ASSUME LiveShape, [Next]_vars
    PROVE  LiveShape'
<1> USE FramesAssumption DEF LiveShape, deviceVars, liveVars
<1>1. ASSUME NEW f, GetsFrame(f), FrameWaits, UNCHANGED <<live, writing>> PROVE LiveShape'
  BY <1>1 DEF GetsFrame, FrameWaits
<1>2. CASE BufferFrame
  BY <1>1, <1>2 DEF BufferFrame
<1>3. CASE InsertFrame
  <2>1. PICK f \in DbFrames(next) : GetsFrame(f) /\ OpenLive(f, watts)
    BY <1>3 DEF InsertFrame
  <2>2. next \in 1..LastMinute /\ next' = next + 1 /\ UNCHANGED <<clock, start, watts>>
    BY <1>3, <2>1 DEF InsertFrame, FrameWaits, GetsFrame
  <2>3. f.minute \in 0..LastMinute
    BY <2>2, FrameMinutes DEF Never
  <2>4. live' \in Contents /\ writing' \in Contents \cup {Closed}
    BY <2>1, <2>3, OpenLiveShape
  <2> QED BY <2>2, <2>4
<1>4. CASE LiveFrame
  <2>1. PICK f \in LiveFrames(clock), w \in Powers : watts' = w /\ OpenLive(f, w)
    BY <1>4 DEF LiveFrame
  <2>2. f.minute \in 0..LastMinute
    BY FrameMinutes DEF Never
  <2>3. live' \in Contents /\ writing' \in Contents \cup {Closed}
    BY <2>1, <2>2, OpenLiveShape
  <2> QED BY <1>4, <2>1, <2>3 DEF LiveFrame
<1>5. CASE CloseLive
  BY <1>5 DEF CloseLive
<1>6. ASSUME NEW w \in Workers, Worker(w) PROVE LiveShape'
  BY <1>1, <1>6 DEF Worker, WorkerInsert, WorkerInsertTorn
<1>7. CASE Connect
  BY <1>7 DEF Connect, Forgotten
<1>8. CASE Disconnect \/ Restart \/ Tick
  BY <1>8 DEF Disconnect, Restart, Tick
<1>9. CASE UNCHANGED frameVars
  BY <1>9 DEF frameVars
<1> QED
  BY <1>2, <1>3, <1>4, <1>5, <1>6, <1>7, <1>8, <1>9, FrameSteps DEF FramesNext

(***************************************************************************)
(* The page.  The number of points alone is not inductive: a reply brings  *)
(* one back for the request that left with the oldest, so that a loaded    *)
(* page must never look like one that is not.                              *)
(***************************************************************************)

\* The points and the replies are sequences; before the page is loaded it
\* has asked nothing.
PageShape ==
    /\ data \in Seq(Powers \cup {NoPower})
    /\ asked \in Nat
    /\ replies \in Seq(Contents)
    /\ data = <<>> => asked = 0 /\ replies = <<>>

PageInv == LiveShape /\ PageShape /\ PointsBounded

LEMMA PageInit == Init => PageInv
<1> SUFFICES ASSUME Init PROVE PageShape /\ PointsBounded
  BY LiveShapeInit DEF PageInv
<1>1. data = <<>> /\ asked = 0 /\ replies = <<>>
  BY DEF Init
<1>2. Len(data) = 0 /\ Len(replies) = 0
  BY <1>1
<1> QED BY <1>1, <1>2, LiveAssumption DEF PageShape, PointsBounded

\* Every request takes the room of a point or of a free request, and its
\* reply gives at most that room back.
LEMMA PageStep ==
    ASSUME PageInv, [Next]_vars
    PROVE  PageShape' /\ PointsBounded'
<1> USE LiveAssumption DEF PageInv, PageShape, PointsBounded
<1>0. Len(data) \in Nat /\ Len(replies) \in Nat
  BY LenProperties
<1>1. CASE LoadPage
  <2> DEFINE fresh == [i \in 1..(totalPoints - 1) |-> NoPower]
  <2>1. fresh \in Seq(Powers \cup {NoPower}) /\ Len(fresh) = totalPoints - 1
    OBVIOUS
  <2>2. fresh # <<>>
    BY <2>1
  <2>3. replies = <<>> /\ Len(replies) = 0
    BY <1>1 DEF LoadPage
  <2> QED BY <1>1, <2>1, <2>2, <2>3 DEF LoadPage
<1>2. CASE Poll
  <2>1. /\ data' \in Seq(Powers \cup {NoPower}) /\ data' # <<>>
        /\ Len(data') <= Len(data)
        /\ Len(data') < totalPoints \/ Len(data') < Len(data)
    <3>1. CASE Len(data) >= totalPoints
      <4>1. data' = Tail(data) /\ data # <<>>
        BY <1>2, <3>1 DEF Poll
      <4>2. data' \in Seq(Powers \cup {NoPower}) /\ Len(data') = Len(data) - 1
        BY <4>1, HeadTailProperties
      <4>3. Len(data') # 0
        BY <1>0, <3>1, <4>2
      <4>4. data' # <<>>
        BY <4>3, EmptySeq
      <4> QED BY <1>0, <4>2, <4>4
    <3>2. CASE ~(Len(data) >= totalPoints)
      BY <1>0, <1>2, <3>2 DEF Poll
    <3> QED BY <3>1, <3>2
  <2>2. Len(data') \in Nat
    BY <2>1, LenProperties
  <2>3. asked' = asked + 1 /\ replies' = replies
    BY <1>2 DEF Poll
  <2>4. asked + Len(replies) < MaxRequests
    BY <1>2 DEF Poll
  <2>5. PointsBounded'
    BY <1>0, <2>1, <2>2, <2>3, <2>4
  <2>6. PageShape'
    BY <2>1, <2>3
  <2> QED BY <2>5, <2>6
<1>3. CASE Serve
  <2>1. live \in Contents
    BY DEF LiveShape
  <2>2. replies' \in Seq(Contents) /\ Len(replies') = Len(replies) + 1
    BY <1>3, <2>1, AppendProperties DEF Serve
  <2>3. data # <<>>
    BY <1>3 DEF Serve
  <2> QED BY <1>0, <1>3, <2>2, <2>3 DEF Serve
<1>4. CASE Receive
  <2>1. PICK i \in DOMAIN replies :
           /\ replies' = RemoveAt(replies, i)
           /\ \/ /\ IsReading(replies[i])
                 /\ data' = Append(data, replies[i].watts)
              \/ data' = data
    BY <1>4 DEF Receive
  <2>2. replies' \in Seq(Contents) /\ Len(replies') = Len(replies) - 1
    BY <2>1, RemoveAtProperties
  <2>3. data # <<>>
    BY <2>1
  <2>4. /\ data' \in Seq(Powers \cup {NoPower}) /\ data' # <<>>
        /\ Len(data') <= Len(data) + 1
    <3>1. CASE IsReading(replies[i]) /\ data' = Append(data, replies[i].watts)
      <4>1. replies[i] \in Contents
        BY <2>1, LenProperties, ElementOfSeq
      <4>2. replies[i].watts \in Powers \cup {NoPower}
        BY <3>1, <4>1 DEF Contents, Empty
      <4> QED BY <3>1, <4>2, AppendProperties
    <3>2. CASE data' = data
      BY <1>0, <2>3, <3>2
    <3> QED BY <2>1, <3>1, <3>2
  <2>5. Len(data') \in Nat /\ Len(replies') \in Nat
    BY <2>2, <2>4, LenProperties
  <2>6. asked' = asked
    BY <1>4 DEF Receive
  <2> QED BY <1>0, <2>2, <2>4, <2>5, <2>6
<1>5. CASE Lose
  BY <1>0, <1>5 DEF Lose
<1>6. CASE UNCHANGED pageVars
  BY <1>6 DEF pageVars
<1>7. UNCHANGED vars => UNCHANGED pageVars
  BY DEF vars
<1> QED BY <1>1, <1>2, <1>3, <1>4, <1>5, <1>6, <1>7 DEF Next, PageNext

\* The behaviours without their fairness.
LEMMA SpecSafety == Spec => Init /\ [][Next]_vars
BY PTL DEF Spec

\* The arrays of the page never grow beyond the points of the graph and the
\* requests under way, in whatever order the replies come or are lost.
THEOREM GraphIsBounded == Spec => []PointsBounded
<1>1. Init => PageInv
  BY PageInit
<1>2. PageInv /\ [Next]_vars => PageInv'
  BY PageStep, LiveShapeStep DEF PageInv
<1>3. PageInv => PointsBounded
  BY DEF PageInv
<1> QED BY <1>1, <1>2, <1>3, SpecSafety, PTL

(***************************************************************************)
(* The time in the .live file.  The device sends old minutes again at a    *)
(* connection: they stay out of the file because the buffer takes them     *)
(* all; a DB frame that it has no room for comes after as many minutes as  *)
(* the device held, and is later than all that was ever shown.             *)
(***************************************************************************)

ReadingsBefore(m) ==
    /\ IsReading(live) => live.minute < m
    /\ IsReading(writing) => writing.minute < m

\* While the history is received, what is shown is earlier than this.
ShownBefore == IF next > start + Memory THEN next ELSE start + Memory

TimeInv ==
    /\ LiveShape
    /\ session \in BOOLEAN /\ receive_history \in BOOLEAN
    /\ frame_id \in 0..HISTORY_SIZE
    /\ writing # Closed => live = Empty
    /\ ReadingsBefore(clock + 1)
    /\ session /\ receive_history => frame_id <= next - start /\ ReadingsBefore(ShownBefore)
    /\ session /\ ~receive_history => ReadingsBefore(next)

\* A reading is of a minute of the device.
LEMMA ReadingMinutes ==
    ASSUME LiveShape
    PROVE  /\ IsReading(live) => live.minute \in 1..LastMinute
           /\ IsReading(writing) => writing.minute \in 1..LastMinute
BY DEF LiveShape, Contents, IsReading

LEMMA TimeInit == Init => TimeInv
<1> SUFFICES ASSUME Init PROVE TimeInv
  OBVIOUS
<1>1. LiveShape
  BY LiveShapeInit
<1>2. /\ session = FALSE /\ receive_history = TRUE /\ frame_id = 0
      /\ live = Empty /\ writing = Closed
  BY DEF Init, FramesInit
<1>3. ReadingsBefore(clock + 1)
  BY <1>2 DEF ReadingsBefore, IsReading
<1>4. frame_id \in 0..HISTORY_SIZE
  BY <1>2, FramesAssumption
<1>5. session \in BOOLEAN /\ receive_history \in BOOLEAN
  BY <1>2
<1> QED BY <1>1, <1>2, <1>3, <1>4, <1>5 DEF TimeInv

\* What process_live_data does to the file: nothing, or it is emptied and
\* about to get the minute of the frame, if it has one.
LEMMA OpenLiveMinute ==
    ASSUME NEW m \in 1..LastMinute, NEW f \in DbFrames(m) \cup LiveFrames(m),
           NEW w \in Powers \cup {NoPower}, OpenLive(f, w)
    PROVE  \/ live' = live /\ writing' = writing
           \/ live' = Empty /\ writing' = Empty
           \/ live' = Empty /\ writing'.minute = m
BY FrameMinutes DEF OpenLive, Never

Later == IsReading(live) /\ IsReading(writing') => live.minute <= writing'.minute

\* One step, which never replaces a reading by an earlier one.
LEMMA TimeStep ==
    ASSUME HISTORY_SIZE >= Memory, TimeInv, [Next]_vars
    PROVE  TimeInv' /\ Later
<1> USE FramesAssumption DEF TimeInv, LiveShape, deviceVars, bufferVars, liveVars
<1>s. LiveShape'
  BY LiveShapeStep
<1>r. /\ IsReading(live) => live.minute \in 1..LastMinute
      /\ IsReading(writing) => writing.minute \in 1..LastMinute
  BY ReadingMinutes
<1>n. ~IsReading(Empty) /\ ~IsReading(Closed) /\ Empty # Closed
  BY DEF IsReading, Empty, Closed, NoPower
<1>k. ASSUME UNCHANGED <<live, writing>>, NEW m, ReadingsBefore(m), NEW n, m \in Int, n \in Int,
             m <= n
      PROVE  ReadingsBefore(n)'
  BY <1>k, <1>r DEF ReadingsBefore, IsReading
<1>u. UNCHANGED live /\ writing = Closed /\ writing' = Closed => Later
  BY <1>n DEF Later
<1>l. UNCHANGED <<live, writing>> => Later
  BY <1>n DEF Later, IsReading
<1>b. ASSUME NEW f, FrameWaits, GetsFrame(f), Buffers(f), UNCHANGED <<live, writing>>
      PROVE  TimeInv' /\ Later
  <2>1. /\ session /\ receive_history /\ next' = next + 1 /\ frame_id' = frame_id + 1
        /\ frame_id < HISTORY_SIZE
        /\ UNCHANGED <<clock, start, session, receive_history>>
    BY <1>b DEF FrameWaits, GetsFrame, Buffers
  <2>2. ShownBefore \in Int /\ ShownBefore' \in Int /\ ShownBefore <= ShownBefore'
    BY <2>1 DEF ShownBefore
  <2>3. ReadingsBefore(ShownBefore)' /\ ReadingsBefore(clock + 1)'
    BY <1>r, <1>b, <2>1, <2>2 DEF ReadingsBefore, IsReading
  <2> QED BY <1>s, <1>l, <1>b, <2>1, <2>3
<1>1. CASE BufferFrame
  BY <1>1, <1>b DEF BufferFrame
<1>2. CASE InsertFrame
  <2>1. PICK f \in DbFrames(next) : GetsFrame(f) /\ OpenLive(f, watts)
    BY <1>2 DEF InsertFrame
  <2>2. /\ session /\ writing = Closed /\ next <= clock /\ next' = next + 1
        /\ receive_history => frame_id = HISTORY_SIZE
        /\ UNCHANGED <<clock, start, session, receive_history, frame_id>>
    BY <1>2, <2>1 DEF InsertFrame, FrameWaits, GetsFrame
  <2>3. ReadingsBefore(next)
    <3>1. CASE receive_history
      <4>1. next >= start + Memory
        BY <2>2, <3>1
      <4>2. ShownBefore = next
        BY <4>1 DEF ShownBefore
      <4> QED BY <2>2, <3>1, <4>2
    <3> QED BY <2>2, <3>1
  <2>4. \/ live' = live /\ writing' = writing
        \/ live' = Empty /\ writing' = Empty
        \/ live' = Empty /\ writing'.minute = next
    BY <2>1, <2>2, OpenLiveMinute
  <2>5. ReadingsBefore(next)' /\ ReadingsBefore(clock + 1)'
    BY <1>r, <1>n, <2>2, <2>3, <2>4 DEF ReadingsBefore, IsReading
  <2>6. receive_history => ReadingsBefore(ShownBefore)'
    BY <1>r, <1>n, <2>2, <2>3, <2>4 DEF ReadingsBefore, IsReading, ShownBefore
  <2>7. Later
    BY <1>r, <1>n, <2>2, <2>3, <2>4 DEF ReadingsBefore, Later
  <2>8. writing' # Closed => live' = Empty
    BY <2>2, <2>4
  <2> QED BY <1>s, <2>2, <2>5, <2>6, <2>7, <2>8
<1>3. CASE LiveFrame
  <2>1. PICK f \in LiveFrames(clock), w \in Powers : OpenLive(f, w)
    BY <1>3 DEF LiveFrame
  <2>2. /\ session /\ next > clock /\ receive_history' = FALSE
        /\ UNCHANGED <<clock, next, session, frame_id>>
    BY <1>3 DEF LiveFrame
  <2>3. live' = Empty /\ (writing' = Empty \/ writing'.minute = clock)
    BY <2>1, FrameMinutes DEF OpenLive, Never, NoPower
  <2>4. ReadingsBefore(next)' /\ ReadingsBefore(clock + 1)'
    BY <1>n, <2>2, <2>3 DEF ReadingsBefore, IsReading
  <2>5. Later
    BY <1>r, <1>n, <2>3 DEF ReadingsBefore, Later
  <2> QED BY <1>s, <2>2, <2>3, <2>4, <2>5
<1>4. CASE CloseLive
  <2>1. /\ live' = writing /\ writing' = Closed
        /\ UNCHANGED <<clock, start, next, session, receive_history, frame_id>>
    BY <1>4 DEF CloseLive
  <2>2. \A m : ReadingsBefore(m) => ReadingsBefore(m)'
    BY <1>n, <2>1 DEF ReadingsBefore, IsReading
  <2>3. ShownBefore' = ShownBefore
    BY <2>1 DEF ShownBefore
  <2>4. ReadingsBefore(ShownBefore) => ReadingsBefore(ShownBefore)'
    BY <1>n, <2>1, <2>3 DEF ReadingsBefore, IsReading
  <2>5. /\ ReadingsBefore(clock + 1) => ReadingsBefore(clock + 1)'
        /\ ReadingsBefore(next) => ReadingsBefore(next)'
    BY <1>n, <2>1 DEF ReadingsBefore, IsReading
  <2> QED BY <1>s, <1>n, <2>1, <2>4, <2>5 DEF Later
<1>5. ASSUME UNCHANGED <<deviceVars, session, bufferVars, live, writing>>
      PROVE  TimeInv' /\ Later
  <2>1. /\ ReadingsBefore(clock + 1)' = ReadingsBefore(clock + 1)
        /\ ReadingsBefore(next)' = ReadingsBefore(next)
        /\ ReadingsBefore(ShownBefore)' = ReadingsBefore(ShownBefore)
    BY <1>5 DEF ReadingsBefore, IsReading, ShownBefore
  <2> QED BY <1>s, <1>l, <1>5, <2>1
<1>6. ASSUME NEW w \in Workers, Worker(w) PROVE TimeInv' /\ Later
  <2>1. CASE WorkerInsert(w)
    BY <1>5, <2>1 DEF WorkerInsert
  <2>2. CASE WorkerInsertTorn(w)
    BY <1>b, <2>2 DEF WorkerInsertTorn
  <2> QED BY <1>6, <2>1, <2>2 DEF Worker
<1>7. CASE Connect
  <2>1. /\ session' = TRUE /\ receive_history' = TRUE /\ frame_id' = 0
        /\ start' = Forgotten + 1 /\ next' = start'
        /\ UNCHANGED <<clock, live, writing>>
    BY <1>7 DEF Connect
  <2>2. ShownBefore' \in Int /\ clock + 1 <= ShownBefore'
    BY <2>1 DEF ShownBefore, Forgotten
  <2>3. ReadingsBefore(ShownBefore)' /\ ReadingsBefore(clock + 1)'
    BY <1>r, <2>1, <2>2 DEF ReadingsBefore, IsReading
  <2>4. next' - start' = 0
    BY <1>s, <2>1
  <2> QED BY <1>s, <1>l, <2>1, <2>3, <2>4
<1>8. CASE Disconnect
  <2>1. /\ session' = FALSE /\ UNCHANGED <<clock, receive_history, frame_id, live, writing>>
    BY <1>8 DEF Disconnect
  <2>2. ReadingsBefore(clock + 1)'
    BY <2>1 DEF ReadingsBefore, IsReading
  <2> QED BY <1>s, <1>l, <2>1, <2>2
<1>9. CASE Restart
  <2>1. /\ session' = FALSE /\ receive_history' = TRUE /\ frame_id' = 0 /\ writing' = Closed
        /\ UNCHANGED <<clock, live>>
    BY <1>9 DEF Restart
  <2>2. ReadingsBefore(clock + 1)'
    BY <1>n, <2>1 DEF ReadingsBefore, IsReading
  <2>3. session' \in BOOLEAN /\ receive_history' \in BOOLEAN
    BY <2>1
  <2>6. frame_id' \in 0..HISTORY_SIZE
    BY <2>1
  <2>4. Later
    BY <1>n, <2>1 DEF Later
  <2>5. TimeInv'
    BY <1>s, <2>1, <2>2, <2>3, <2>6
  <2> QED BY <2>4, <2>5
<1>10. CASE Tick
  <2>1. /\ clock' = clock + 1
        /\ UNCHANGED <<start, next, session, receive_history, frame_id, live, writing>>
    BY <1>10 DEF Tick
  <2>2. /\ ReadingsBefore(clock + 1)'
        /\ ReadingsBefore(next) => ReadingsBefore(next)'
        /\ ReadingsBefore(ShownBefore) => ReadingsBefore(ShownBefore)'
    BY <1>r, <2>1 DEF ReadingsBefore, IsReading, ShownBefore
  <2> QED BY <1>s, <1>l, <2>1, <2>2
<1>11. CASE UNCHANGED frameVars
  BY <1>5, <1>11 DEF frameVars
<1> QED
  BY <1>1, <1>2, <1>3, <1>4, <1>6, <1>7, <1>8, <1>9, <1>10, <1>11, FrameSteps DEF FramesNext

\* The time that .live shows never goes back, over every disconnection and
\* restart and for as long as the device runs, when the buffer can take all
\* the minutes that the device holds.
THEOREM TimeIsMonotone ==
    ASSUME HISTORY_SIZE >= Memory
    PROVE  Spec => TimeNeverGoesBack
<1>1. Init => TimeInv
  BY TimeInit
<1>2. TimeInv /\ [Next]_vars => TimeInv'
  BY TimeStep
<1>3. TimeInv /\ [Next]_vars => [Later]_frameVars
  BY TimeStep
<1> QED BY <1>1, <1>2, <1>3, SpecSafety, PTL DEF TimeNeverGoesBack, Later

(***************************************************************************)
(* The types.                                                              *)
(***************************************************************************)

\* What a function can decode, in one piece or while a slot is overwritten.
Heard == [minute : 0..LastMinute, month : 0..12 \cup {StrangeMonth}]

Stored == [minute : 0..LastMinute, month : 0..12]

LEMMA FramesHeard ==
    ASSUME NEW m \in 1..LastMinute, NEW f \in DbFrames(m) \cup LiveFrames(m)
    PROVE  f \in Slots
<1>1. MonthOf[m] \in 1..12 /\ m \in 0..LastMinute /\ 0 \in 0..LastMinute
  BY FramesAssumption
<1>2. f \in {Good(m), BadMonth(m), BadDate}
  BY DEF DbFrames, LiveFrames
<1>3. Good(m) \in Slots
  BY <1>1 DEF Good, Slots
<1>4. BadMonth(m) \in Slots
  BY <1>1 DEF BadMonth, Slots
<1>5. BadDate \in Slots
  BY <1>1 DEF BadDate, Slots, Never
<1> QED BY <1>2, <1>3, <1>4, <1>5

LEMMA SlotsHeard == Slots \subseteq Heard
<1>1. 0 \in 0..LastMinute
  BY FramesAssumption
<1> QED BY <1>1 DEF Slots, Heard, NoFrame, Never

LEMMA MixesHeard ==
    ASSUME NEW old \in Slots, NEW f \in Slots, NEW mix \in Mixes(old, f)
    PROVE  mix \in Heard
<1>1. old \in Heard /\ f \in Heard
  BY SlotsHeard
<1>2. Mixed[old.minute][f.minute] \subseteq 0..LastMinute
  BY <1>1, FramesAssumption DEF Heard
<1> QED BY <1>1, <1>2 DEF Mixes, Heard

\* No record gets a month above 12.
LEMMA ValidMonthType ==
    ASSUME NEW f \in Heard, NEW last \in 0..12
    PROVE  /\ ValidMonth(f.month, last) \in 0..12
           /\ Record(f, last) \in Stored
<1>1. f.minute \in 0..LastMinute /\ f.month \in 0..12 \cup {StrangeMonth}
  BY DEF Heard
<1>2. ValidMonth(f.month, last) \in 0..12
  BY <1>1 DEF ValidMonth, StrangeMonth
<1> QED BY <1>1, <1>2 DEF Record, Stored

\* What LiveShape does not say of the daemon: the buffer, the threads and
\* what they insert.
BufferShape == frame_id \in 0..HISTORY_SIZE /\ history \in [1..HISTORY_SIZE -> Slots]

ThreadShape == wk \in [Workers -> [num : 0..HISTORY_SIZE, i : 0..HISTORY_SIZE]]

MonthShape ==
    /\ last_valid_month \in 0..12 /\ worker_month \in 0..12
    /\ rows \in SUBSET Stored

FlagShape ==
    /\ session \in BOOLEAN /\ receive_history \in BOOLEAN /\ overlapped \in BOOLEAN
    /\ stops \in 0..MaxStops

DaemonShape == BufferShape /\ ThreadShape /\ MonthShape /\ FlagShape

LEMMA DaemonShapeInit == Init => DaemonShape
<1> SUFFICES ASSUME Init PROVE DaemonShape
  OBVIOUS
<1>1. BufferShape
  BY FramesAssumption DEF Init, FramesInit, BufferShape, Slots
<1>2. ThreadShape
  BY FramesAssumption DEF Init, FramesInit, ThreadShape, IdleWorker
<1>3. MonthShape
  BY DEF Init, FramesInit, MonthShape
<1>4. session \in BOOLEAN /\ receive_history \in BOOLEAN /\ overlapped \in BOOLEAN
  BY DEF Init, FramesInit
<1>5. stops \in 0..MaxStops
  BY FramesAssumption DEF Init, FramesInit
<1> QED BY <1>1, <1>2, <1>3, <1>4, <1>5 DEF DaemonShape, FlagShape

\* The main thread gets a frame.
LEMMA GetsFrameShape ==
    ASSUME DaemonShape, NEW f \in Slots, GetsFrame(f)
    PROVE  FlagShape' /\ last_valid_month' \in 0..12
<1>1. f \in Heard
  BY SlotsHeard
<1>2. last_valid_month' \in 0..12
  BY <1>1, ValidMonthType DEF GetsFrame, DaemonShape, MonthShape
<1>3. FlagShape'
  BY DEF GetsFrame, DaemonShape, FlagShape
<1> QED BY <1>2, <1>3

LEMMA BuffersShape ==
    ASSUME BufferShape, NEW f \in Slots, Buffers(f)
    PROVE  BufferShape'
<1>1. frame_id' \in 0..HISTORY_SIZE
  BY FramesAssumption DEF Buffers, BufferShape
<1>2. history' \in [1..HISTORY_SIZE -> Slots]
  BY DEF Buffers, BufferShape
<1> QED BY <1>1, <1>2 DEF BufferShape

\* A history thread inserts what it decoded.
LEMMA InsertsShape ==
    ASSUME DaemonShape, NEW w \in Workers, Reads(w), NEW f \in Heard, Inserts(w, f)
    PROVE  ThreadShape' /\ worker_month' \in 0..12 /\ rows' \in SUBSET Stored
<1>1. worker_month \in 0..12 /\ rows \in SUBSET Stored
  BY DEF DaemonShape, MonthShape
<1>2. worker_month' \in 0..12 /\ rows' \in SUBSET Stored
  BY <1>1, ValidMonthType DEF Inserts
<1>3. Advanced(w) \in [num : 0..HISTORY_SIZE, i : 0..HISTORY_SIZE]
  <2>1. wk[w] \in [num : 0..HISTORY_SIZE, i : 0..HISTORY_SIZE] /\ wk[w].i < wk[w].num
    BY DEF DaemonShape, ThreadShape, Reads
  <2>2. wk[w].i + 1 \in 0..HISTORY_SIZE
    BY <2>1, FramesAssumption
  <2>3. IdleWorker \in [num : 0..HISTORY_SIZE, i : 0..HISTORY_SIZE]
    BY FramesAssumption DEF IdleWorker
  <2>4. [wk[w] EXCEPT !.i = @ + 1] \in [num : 0..HISTORY_SIZE, i : 0..HISTORY_SIZE]
    BY <2>1, <2>2
  <2> QED BY <2>3, <2>4 DEF Advanced
<1>4. ThreadShape'
  BY <1>3 DEF DaemonShape, ThreadShape, Inserts
<1> QED BY <1>2, <1>4

\* A thread started has the slots of the buffer to read.
LEMMA StartShape ==
    ASSUME BufferShape, ThreadShape, StartHistory
    PROVE  ThreadShape'
<1>1. PICK w : w \in IdleWorkers /\ wk' = [wk EXCEPT ![w] = [IdleWorker EXCEPT !.num = frame_id]]
  <2> DEFINE w == CHOOSE v \in IdleWorkers : TRUE
  <2>1. w \in IdleWorkers
    BY DEF StartHistory
  <2> QED BY <2>1 DEF StartHistory
<1>2. [IdleWorker EXCEPT !.num = frame_id] \in [num : 0..HISTORY_SIZE, i : 0..HISTORY_SIZE]
  BY FramesAssumption DEF IdleWorker, BufferShape
<1> QED BY <1>1, <1>2 DEF ThreadShape, IdleWorkers

LEMMA DaemonShapeStep ==
    ASSUME LiveShape, DaemonShape, [Next]_vars
    PROVE  DaemonShape'
<1>f. ASSUME FrameWaits PROVE \A f \in DbFrames(next) : f \in Slots
  BY <1>f, FramesHeard, FramesAssumption DEF FrameWaits, LiveShape
<1>m. last_valid_month \in 0..12 /\ worker_month \in 0..12 /\ rows \in SUBSET Stored
  BY DEF DaemonShape, MonthShape
<1>1. CASE BufferFrame
  <2>1. PICK f \in Slots : GetsFrame(f) /\ Buffers(f)
    BY <1>1, <1>f DEF BufferFrame
  <2>2. FlagShape' /\ last_valid_month' \in 0..12
    BY <2>1, GetsFrameShape
  <2>3. BufferShape'
    BY <2>1, BuffersShape DEF DaemonShape
  <2>4. UNCHANGED <<wk, worker_month, rows>>
    BY <1>1 DEF BufferFrame, workerVars
  <2> QED BY <1>m, <2>2, <2>3, <2>4 DEF DaemonShape, ThreadShape, MonthShape
<1>2. CASE InsertFrame
  <2>1. PICK f \in Slots : GetsFrame(f) /\ rows' = rows \cup {Record(f, last_valid_month)}
    BY <1>2, <1>f DEF InsertFrame
  <2>2. FlagShape' /\ last_valid_month' \in 0..12
    BY <2>1, GetsFrameShape
  <2>3. rows' \in SUBSET Stored
    BY <1>m, <2>1, SlotsHeard, ValidMonthType
  <2>4. UNCHANGED <<wk, worker_month, frame_id, history>>
    BY <1>2 DEF InsertFrame, workerVars
  <2> QED BY <1>m, <2>2, <2>3, <2>4 DEF DaemonShape, BufferShape, ThreadShape, MonthShape
<1>3. CASE LiveFrame
  <2>1. PICK f \in LiveFrames(clock) :
           last_valid_month' = ValidMonth(f.month, last_valid_month)
    BY <1>3 DEF LiveFrame
  <2>2. f \in Heard
    BY FramesHeard, SlotsHeard DEF LiveShape
  <2>3. last_valid_month' \in 0..12
    BY <1>m, <2>1, <2>2, ValidMonthType
  <2>4. /\ StartHistory \/ wk' = wk
        /\ receive_history' = FALSE
        /\ UNCHANGED <<session, frame_id, history, worker_month, rows, stops, overlapped>>
    BY <1>3 DEF LiveFrame
  <2>5. ThreadShape'
    BY <2>4, StartShape DEF DaemonShape, ThreadShape
  <2>6. FlagShape'
    BY <2>4 DEF DaemonShape, FlagShape
  <2> QED BY <1>m, <2>3, <2>4, <2>5, <2>6 DEF DaemonShape, BufferShape, MonthShape
<1>4. ASSUME NEW w \in Workers, WorkerInsert(w) PROVE DaemonShape'
  <2>1. history[wk[w].i + 1] \in Heard
    <3>1. wk[w].i \in 0..HISTORY_SIZE /\ wk[w].num \in 0..HISTORY_SIZE /\ wk[w].i < wk[w].num
      BY <1>4 DEF WorkerInsert, Reads, DaemonShape, ThreadShape
    <3>2. wk[w].i + 1 \in 1..HISTORY_SIZE
      BY <3>1, FramesAssumption
    <3> QED BY <3>2, SlotsHeard DEF DaemonShape, BufferShape
  <2>2. ThreadShape' /\ worker_month' \in 0..12 /\ rows' \in SUBSET Stored
    BY <1>4, <2>1, InsertsShape DEF WorkerInsert
  <2>3. UNCHANGED <<session, receive_history, frame_id, history, last_valid_month, stops, overlapped>>
    BY <1>4 DEF WorkerInsert, bufferVars
  <2> QED BY <1>m, <2>2, <2>3 DEF DaemonShape, BufferShape, MonthShape, FlagShape
<1>5. ASSUME NEW w \in Workers, WorkerInsertTorn(w) PROVE DaemonShape'
  <2>1. PICK f \in Slots :
           /\ GetsFrame(f) /\ Buffers(f)
           /\ \E mix \in Mixes(history[frame_id + 1], f) : Inserts(w, mix)
    BY <1>5, <1>f DEF WorkerInsertTorn
  <2>2. PICK mix \in Mixes(history[frame_id + 1], f) : Inserts(w, mix)
    BY <2>1
  <2>3. history[frame_id + 1] \in Slots
    <3>1. frame_id + 1 \in 1..HISTORY_SIZE
      BY <2>1, FramesAssumption DEF Buffers, DaemonShape, BufferShape
    <3> QED BY <3>1 DEF DaemonShape, BufferShape
  <2>4. mix \in Heard
    BY <2>3, MixesHeard
  <2>5. ThreadShape' /\ worker_month' \in 0..12 /\ rows' \in SUBSET Stored
    BY <1>5, <2>2, <2>4, InsertsShape DEF WorkerInsertTorn
  <2>6. FlagShape' /\ last_valid_month' \in 0..12
    BY <2>1, GetsFrameShape
  <2>7. BufferShape'
    BY <2>1, BuffersShape DEF DaemonShape
  <2> QED BY <2>5, <2>6, <2>7 DEF DaemonShape, MonthShape
<1>6. CASE Connect
  <2>1. /\ session' = TRUE /\ receive_history' = TRUE /\ frame_id' = 0
        /\ overlapped' = (IdleWorkers # Workers)
        /\ UNCHANGED <<history, wk, worker_month, last_valid_month, rows, stops>>
    BY <1>6 DEF Connect, workerVars
  <2>2. FlagShape'
    BY <2>1 DEF DaemonShape, FlagShape
  <2>3. BufferShape'
    BY <2>1, FramesAssumption DEF DaemonShape, BufferShape
  <2> QED BY <2>1, <2>2, <2>3 DEF DaemonShape, ThreadShape, MonthShape
<1>7. CASE Disconnect
  <2>1. stops' \in 0..MaxStops
    BY <1>7, FramesAssumption DEF Disconnect, DaemonShape, FlagShape
  <2>2. /\ session' = FALSE
        /\ UNCHANGED <<receive_history, frame_id, history, wk, worker_month,
                       last_valid_month, rows, overlapped>>
    BY <1>7 DEF Disconnect, bufferVars, workerVars
  <2>3. FlagShape'
    BY <2>1, <2>2 DEF DaemonShape, FlagShape
  <2> QED BY <2>2, <2>3 DEF DaemonShape, BufferShape, ThreadShape, MonthShape
<1>8. CASE Restart
  <2>1. stops' \in 0..MaxStops
    BY <1>8, FramesAssumption DEF Restart, DaemonShape, FlagShape
  <2>2. /\ session' = FALSE /\ receive_history' = TRUE /\ frame_id' = 0
        /\ history' = [k \in 1..HISTORY_SIZE |-> NoFrame]
        /\ wk' = [w \in Workers |-> IdleWorker]
        /\ last_valid_month' = 0 /\ worker_month' = 0
        /\ UNCHANGED <<rows, overlapped>>
    BY <1>8 DEF Restart
  <2>3. FlagShape'
    BY <2>1, <2>2 DEF DaemonShape, FlagShape
  <2>4. BufferShape'
    BY <2>2, FramesAssumption DEF BufferShape, Slots
  <2>5. ThreadShape'
    BY <2>2, FramesAssumption DEF ThreadShape, IdleWorker
  <2>6. MonthShape'
    BY <1>m, <2>2 DEF MonthShape
  <2> QED BY <2>3, <2>4, <2>5, <2>6 DEF DaemonShape
<1>9. CASE CloseLive \/ Tick \/ UNCHANGED frameVars
  <2>1. UNCHANGED <<session, receive_history, frame_id, history, wk, worker_month,
                    last_valid_month, rows, stops, overlapped>>
    BY <1>9 DEF CloseLive, Tick, frameVars, bufferVars, workerVars
  <2> QED BY <2>1 DEF DaemonShape, BufferShape, ThreadShape, MonthShape, FlagShape
<1> QED
  BY <1>1, <1>2, <1>3, <1>4, <1>5, <1>6, <1>7, <1>8, <1>9, FrameSteps DEF FramesNext, Worker

\* The requests under way are bounded by the model alone.
RequestShape == asked + Len(replies) <= MaxRequests

LEMMA RequestShapeInit == Init => RequestShape
<1> SUFFICES ASSUME Init PROVE RequestShape
  OBVIOUS
<1>1. asked = 0 /\ Len(replies) = 0
  BY DEF Init
<1> QED BY <1>1, LiveAssumption DEF RequestShape

LEMMA RequestShapeStep ==
    ASSUME LiveShape, PageShape, RequestShape, [Next]_vars
    PROVE  RequestShape'
<1> USE LiveAssumption DEF PageShape, RequestShape
<1>0. Len(replies) \in Nat
  BY LenProperties
<1>1. CASE LoadPage
  <2>1. replies = <<>> /\ Len(replies) = 0
    BY <1>1 DEF LoadPage
  <2> QED BY <1>1, <2>1 DEF LoadPage
<1>2. CASE Poll
  BY <1>0, <1>2 DEF Poll
<1>3. CASE Serve
  <2>1. Len(replies') = Len(replies) + 1
    BY <1>3, AppendProperties DEF Serve, LiveShape
  <2> QED BY <1>0, <1>3, <2>1 DEF Serve
<1>4. CASE Receive
  <2>1. PICK i \in DOMAIN replies : replies' = RemoveAt(replies, i)
    BY <1>4 DEF Receive
  <2>2. Len(replies') = Len(replies) - 1
    BY <2>1, RemoveAtProperties
  <2> QED BY <1>0, <1>4, <2>2 DEF Receive
<1>5. CASE Lose
  BY <1>0, <1>5 DEF Lose
<1>6. CASE UNCHANGED pageVars
  BY <1>6 DEF pageVars
<1>7. UNCHANGED vars => UNCHANGED pageVars
  BY DEF vars
<1> QED BY <1>1, <1>2, <1>3, <1>4, <1>5, <1>6, <1>7 DEF Next, PageNext

\* Every variable keeps its type: no record of a month above 12 or of a
\* minute the device has not, no frame beyond the buffer, no request beyond
\* those that can be under way.
THEOREM LiveTypes == Spec => []TypeOK
<1> DEFINE Shape == PageInv /\ DaemonShape /\ RequestShape
<1>1. Init => Shape
  BY PageInit, DaemonShapeInit, RequestShapeInit
<1>2. Shape /\ [Next]_vars => Shape'
  <2> SUFFICES ASSUME Shape, [Next]_vars PROVE Shape'
    OBVIOUS
  <2>1. LiveShape' /\ PageShape' /\ PointsBounded'
    BY LiveShapeStep, PageStep DEF PageInv
  <2>2. DaemonShape'
    BY DaemonShapeStep DEF PageInv
  <2>3. RequestShape'
    BY RequestShapeStep DEF PageInv
  <2> QED BY <2>1, <2>2, <2>3 DEF PageInv
<1>3. Shape => TypeOK
  <2> SUFFICES ASSUME Shape PROVE TypeOK
    OBVIOUS
  <2>1. asked + Len(replies) \in 0..MaxRequests
    <3>1. Len(replies) \in Nat
      BY LenProperties DEF PageInv, PageShape
    <3> QED BY <3>1, LiveAssumption DEF PageInv, PageShape, RequestShape
  <2>2. rows \subseteq [minute : 0..LastMinute, month : 0..12]
    BY DEF DaemonShape, MonthShape, Stored
  <2> QED
    BY <2>1, <2>2 DEF PageInv, LiveShape, PageShape, DaemonShape, BufferShape, ThreadShape,
                MonthShape, FlagShape, TypeOK
<1> HIDE DEF Shape
<1> QED BY <1>1, <1>2, <1>3, SpecSafety, PTL

(***************************************************************************)
(* The months.  Until history threads overlap, the month that the static   *)
(* variable keeps is the one of the last frame that the only thread has    *)
(* read, and what it reads is what the session sent first: no frame is     *)
(* buffered while a thread of the session runs.                            *)
(***************************************************************************)

\* The first frames of a session and of a month are good.
FirstFramesGood ==
    /\ ~FirstStrange
    /\ \A m \in StrangeMinutes \cap (2..LastMinute) : MonthOf[m - 1] = MonthOf[m]

\* The month is substituted by the one of the frame before, if any.
LEMMA ValidMonthRight ==
    ASSUME FirstFramesGood, start \in 1..(LastMinute + 1), NEW m \in start..LastMinute,
           NEW f \in DbFrames(m), NEW last, m > start => last = MonthOf[m - 1]
    PROVE  /\ ValidMonth(f.month, last) = MonthOf[m]
           /\ Record(f, last).minute # Never =>
                 Record(f, last).month = MonthOf[Record(f, last).minute]
<1>0. m \in 1..LastMinute
  BY FramesAssumption
<1>1. MonthOf[m] \in 1..12
  BY <1>0, FramesAssumption
<1>2. ValidMonth(f.month, last) = MonthOf[m]
  <2>1. CASE f = Good(m)
    BY <1>1, <2>1 DEF Good, ValidMonth
  <2>2. CASE f # Good(m)
    <3>1. CanBeStrange(m) /\ f \in {BadMonth(m), BadDate}
      BY <2>2 DEF DbFrames
    <3>2. f.month = StrangeMonth
      BY <3>1 DEF BadMonth, BadDate
    <3>3. m \in StrangeMinutes /\ m # start
      BY <3>1 DEF CanBeStrange, FirstFramesGood
    <3>4. m > start /\ m \in 2..LastMinute
      BY <1>0, <3>3, FramesAssumption
    <3>5. last = MonthOf[m]
      BY <3>3, <3>4 DEF FirstFramesGood
    <3> QED BY <3>2, <3>5 DEF ValidMonth, StrangeMonth
  <2> QED BY <2>1, <2>2
<1>3. f.minute \in {m, Never}
  BY <1>0, FrameMinutes
<1> QED BY <1>2, <1>3 DEF Record

\* The only history thread, if there is one: its session has sent its history
\* and the static month is the one of the slot before.
AloneReads(w) ==
    /\ ~receive_history
    /\ wk[w].num <= frame_id
    /\ wk[w].i > 0 => worker_month = MonthOf[start + wk[w].i - 1]
    /\ \A v \in Workers : Reads(v) => v = w

BufferInv ==
    /\ start <= next /\ next <= clock + 1
    /\ frame_id <= next - start
    /\ session /\ receive_history /\ frame_id < HISTORY_SIZE => frame_id = next - start
    /\ \A k \in 1..frame_id : history[k] \in DbFrames(start + k - 1)

LastInv == session /\ next > start => last_valid_month = MonthOf[next - 1]

ThreadInv == ~overlapped => \A w \in Workers : Reads(w) => AloneReads(w)

MonthInv == BufferInv /\ LastInv /\ ThreadInv

LEMMA MonthInit == Init => MonthInv
<1> SUFFICES ASSUME Init PROVE MonthInv
  OBVIOUS
<1>1. /\ clock = 1 /\ start = 1 /\ next = 1 /\ session = FALSE /\ frame_id = 0
      /\ wk = [w \in Workers |-> IdleWorker]
  BY DEF Init, FramesInit
<1>2. BufferInv
  BY <1>1 DEF BufferInv
<1>3. LastInv
  BY <1>1 DEF LastInv
<1>4. ThreadInv
  BY <1>1 DEF ThreadInv, Reads, IdleWorker
<1> QED BY <1>2, <1>3, <1>4 DEF MonthInv

\* A DB frame is received: it is of the session, and so is its month.
LEMMA ReceivesRight ==
    ASSUME FirstFramesGood, LiveShape, MonthInv, FrameWaits, NEW f \in DbFrames(next),
           GetsFrame(f)
    PROVE  /\ LastInv'
           /\ start' <= next' /\ next' <= clock' + 1
           /\ Record(f, last_valid_month).minute # Never =>
                 Record(f, last_valid_month).month = MonthOf[Record(f, last_valid_month).minute]
<1>1. /\ session /\ next <= clock /\ next' = next + 1
      /\ UNCHANGED <<clock, start, session>>
      /\ last_valid_month' = ValidMonth(f.month, last_valid_month)
  BY DEF FrameWaits, GetsFrame
<1>2. clock \in 1..LastMinute /\ start \in 1..(LastMinute + 1) /\ next \in start..LastMinute
  BY <1>1, FramesAssumption DEF LiveShape, MonthInv, BufferInv
<1>3. next > start => last_valid_month = MonthOf[next - 1]
  BY <1>1 DEF MonthInv, LastInv
<1>4. /\ ValidMonth(f.month, last_valid_month) = MonthOf[next]
      /\ Record(f, last_valid_month).minute # Never =>
            Record(f, last_valid_month).month = MonthOf[Record(f, last_valid_month).minute]
  BY <1>2, <1>3, ValidMonthRight
<1>5. next' - 1 = next
  BY <1>1, <1>2
<1>6. LastInv'
  BY <1>1, <1>4, <1>5 DEF LastInv
<1>7. start' <= next' /\ next' <= clock' + 1
  BY <1>1, <1>2, FramesAssumption
<1> QED BY <1>4, <1>6, <1>7

\* A buffered frame goes behind those of its session.
LEMMA BuffersRight ==
    ASSUME LiveShape, DaemonShape, BufferInv, FrameWaits, NEW f \in DbFrames(next),
           GetsFrame(f), Buffers(f)
    PROVE  BufferInv'
<1>1. /\ session /\ next <= clock /\ next' = next + 1 /\ frame_id' = frame_id + 1
      /\ receive_history /\ frame_id < HISTORY_SIZE
      /\ history' = [history EXCEPT ![frame_id + 1] = f]
      /\ UNCHANGED <<clock, start, session, receive_history>>
  BY DEF FrameWaits, GetsFrame, Buffers
<1>2. /\ clock \in 1..LastMinute /\ start \in 1..(LastMinute + 1)
      /\ next \in 1..(LastMinute + 1) /\ frame_id \in 0..HISTORY_SIZE
      /\ HISTORY_SIZE \in Nat /\ LastMinute \in Nat
  BY FramesAssumption DEF LiveShape, DaemonShape, BufferShape
<1>3. frame_id = next - start
  BY <1>1 DEF BufferInv
<1>4. ASSUME NEW k \in 1..frame_id' PROVE (history[k] \in DbFrames(start + k - 1))'
  <2>1. DbFrames(start + k - 1)' = DbFrames(start + k - 1)
    BY <1>1 DEF DbFrames, CanBeStrange
  <2>2. CASE k = frame_id + 1
    <3>1. start + k - 1 = next /\ frame_id + 1 \in 1..HISTORY_SIZE
      BY <1>1, <1>2, <1>3, <2>2
    <3>2. history'[k] = f
      BY <1>1, <2>2, <3>1 DEF DaemonShape, BufferShape
    <3> QED BY <2>1, <3>1, <3>2
  <2>3. CASE k # frame_id + 1
    <3>1. k \in 1..frame_id
      BY <1>1, <1>2, <2>3
    <3>2. history'[k] = history[k]
      BY <1>1, <1>2, <2>3, <3>1 DEF DaemonShape, BufferShape
    <3> QED BY <2>1, <3>1, <3>2 DEF BufferInv
  <2> QED BY <2>2, <2>3
<1>5. start' <= next' /\ next' <= clock' + 1 /\ frame_id' <= next' - start'
  BY <1>1, <1>2, <1>3 DEF BufferInv
<1>6. session' /\ receive_history' /\ frame_id' < HISTORY_SIZE => frame_id' = next' - start'
  BY <1>1, <1>2, <1>3
<1> QED BY <1>4, <1>5, <1>6 DEF BufferInv

\* A step that leaves the buffer and the session alone.
LEMMA BufferKept ==
    ASSUME BufferInv, UNCHANGED <<clock, start, next, session, receive_history, frame_id, history>>
    PROVE  BufferInv'
BY DEF BufferInv, DbFrames, CanBeStrange

\* What the only thread inserts has the month of its minute.
LEMMA InsertsRight ==
    ASSUME FirstFramesGood, LiveShape, DaemonShape, MonthInv, ~overlapped,
           NEW w \in Workers, WorkerInsert(w)
    PROVE  /\ worker_month' = MonthOf[start + wk[w].i]
           /\ \A r \in rows' \ rows : r.minute # Never => r.month = MonthOf[r.minute]
<1> DEFINE k == wk[w].i + 1
<1> DEFINE m == start + k - 1
<1>1. wk[w].i \in 0..HISTORY_SIZE /\ wk[w].num \in 0..HISTORY_SIZE /\ wk[w].i < wk[w].num
  BY DEF WorkerInsert, Reads, DaemonShape, ThreadShape
<1>2. AloneReads(w)
  BY DEF WorkerInsert, MonthInv, ThreadInv
<1>3. /\ frame_id \in 0..HISTORY_SIZE /\ start \in 1..(LastMinute + 1)
      /\ next \in 1..(LastMinute + 1) /\ clock \in 1..LastMinute
      /\ HISTORY_SIZE \in Nat /\ LastMinute \in Nat
  BY FramesAssumption DEF DaemonShape, BufferShape, LiveShape
<1>4. k \in 1..frame_id
  BY <1>1, <1>2, <1>3 DEF AloneReads
<1>5. m = start + wk[w].i /\ m \in start..LastMinute
  BY <1>1, <1>3, <1>4 DEF MonthInv, BufferInv
<1>6. history[k] \in DbFrames(m)
  BY <1>4 DEF MonthInv, BufferInv
<1>7. m > start => worker_month = MonthOf[m - 1]
  <2>1. ASSUME m > start PROVE wk[w].i > 0 /\ m - 1 = start + wk[w].i - 1
    BY <1>1, <1>3, <1>5, <2>1
  <2> QED BY <1>2, <2>1 DEF AloneReads
<1> HIDE DEF m
<1>8. /\ ValidMonth(history[k].month, worker_month) = MonthOf[m]
      /\ Record(history[k], worker_month).minute # Never =>
            Record(history[k], worker_month).month = MonthOf[Record(history[k], worker_month).minute]
  BY <1>3, <1>5, <1>6, <1>7, ValidMonthRight
<1>9. /\ worker_month' = ValidMonth(history[k].month, worker_month)
      /\ rows' = rows \cup {Record(history[k], worker_month)}
  BY DEF WorkerInsert, Inserts
<1> QED BY <1>5, <1>8, <1>9

\* One step.
LEMMA MonthStep ==
    ASSUME FirstFramesGood, LiveShape, DaemonShape, MonthInv, [Next]_vars
    PROVE  MonthInv'
<1>s. /\ clock \in 1..LastMinute /\ start \in 1..(LastMinute + 1)
      /\ next \in 1..(LastMinute + 1) /\ frame_id \in 0..HISTORY_SIZE
      /\ HISTORY_SIZE \in Nat /\ LastMinute \in Nat /\ Memory \in Nat
  BY FramesAssumption DEF LiveShape, DaemonShape, BufferShape
<1>i. BufferInv /\ LastInv /\ ThreadInv
  BY DEF MonthInv
<1>1. CASE BufferFrame
  <2>1. PICK f \in DbFrames(next) : GetsFrame(f) /\ Buffers(f)
    BY <1>1 DEF BufferFrame
  <2>2. FrameWaits /\ UNCHANGED wk
    BY <1>1 DEF BufferFrame, workerVars
  <2>3. LastInv' /\ BufferInv'
    BY <1>i, <2>1, <2>2, ReceivesRight, BuffersRight
  <2>4. ThreadInv'
    <3>1. receive_history /\ UNCHANGED <<wk, overlapped>>
      BY <2>1, <2>2 DEF Buffers, GetsFrame
    <3> QED BY <1>i, <3>1 DEF ThreadInv, AloneReads, Reads
  <2> QED BY <2>3, <2>4 DEF MonthInv
<1>2. CASE InsertFrame
  <2>1. PICK f \in DbFrames(next) : GetsFrame(f)
    BY <1>2 DEF InsertFrame
  <2>2. /\ FrameWaits /\ ~(receive_history /\ frame_id < HISTORY_SIZE)
        /\ next' = next + 1
        /\ UNCHANGED <<wk, worker_month, frame_id, history, start, receive_history, overlapped>>
    BY <1>2, <2>1 DEF InsertFrame, workerVars, GetsFrame
  <2>3. LastInv' /\ start' <= next' /\ next' <= clock' + 1
    BY <2>1, <2>2, ReceivesRight
  <2>4. BufferInv'
    <3>1. \A k \in 1..frame_id : history[k] \in DbFrames(start + k - 1)
      BY <1>i DEF BufferInv
    <3>2. \A k \in 1..frame_id' : (history[k] \in DbFrames(start + k - 1))'
      BY <2>2, <3>1 DEF DbFrames, CanBeStrange
    <3>3. frame_id' <= next' - start'
      BY <1>s, <1>i, <2>2 DEF BufferInv
    <3> QED BY <2>2, <2>3, <3>2, <3>3 DEF BufferInv
  <2>5. ThreadInv'
    BY <1>i, <2>2 DEF ThreadInv, AloneReads, Reads
  <2> QED BY <2>3, <2>4, <2>5 DEF MonthInv
<1>3. CASE LiveFrame
  <2>1. PICK f \in LiveFrames(clock) :
           last_valid_month' = ValidMonth(f.month, last_valid_month)
    BY <1>3 DEF LiveFrame
  <2>2. /\ session /\ next > clock /\ receive_history' = FALSE
        /\ receive_history => StartHistory
        /\ ~receive_history => wk' = wk
        /\ UNCHANGED <<clock, start, next, session, frame_id, history, worker_month, overlapped>>
    BY <1>3 DEF LiveFrame, deviceVars
  <2>3. next - 1 = clock /\ clock' = clock
    BY <1>s, <1>i, <2>2 DEF BufferInv
  <2>4. LastInv'
    <3>1. f.month \in {MonthOf[clock], StrangeMonth}
      BY DEF LiveFrames, Good, BadMonth, BadDate
    <3>2. MonthOf[clock] \in 1..12
      BY <1>s, FramesAssumption
    <3>3. next > start => last_valid_month = MonthOf[clock]
      BY <1>i, <2>2, <2>3 DEF LastInv
    <3>4. next > start => last_valid_month' = MonthOf[clock]
      BY <2>1, <3>1, <3>2, <3>3 DEF ValidMonth, StrangeMonth
    <3> QED BY <2>2, <2>3, <3>4 DEF LastInv
  <2>5. BufferInv'
    <3>1. \A k \in 1..frame_id' : (history[k] \in DbFrames(start + k - 1))'
      BY <1>i, <2>2 DEF BufferInv, DbFrames, CanBeStrange
    <3> QED BY <1>i, <2>2, <3>1 DEF BufferInv
  <2>6. ThreadInv'
    <3>1. CASE ~receive_history
      BY <1>i, <2>2, <3>1 DEF ThreadInv, AloneReads, Reads
    <3>2. CASE receive_history
      <4>1. PICK w : wk' = [wk EXCEPT ![w] = [IdleWorker EXCEPT !.num = frame_id]]
        BY <2>2, <3>2 DEF StartHistory
      <4>2. ASSUME ~overlapped PROVE \A v \in Workers : ~Reads(v)
        BY <1>i, <3>2, <4>2 DEF ThreadInv, AloneReads
      <4>3. ASSUME ~overlapped', NEW v \in Workers, Reads(v)' PROVE AloneReads(v)'
        <5>1. \A u \in Workers : u # w => wk'[u] = wk[u]
          BY <4>1 DEF DaemonShape, ThreadShape
        <5>2. \A u \in Workers : Reads(u)' => u = w
          BY <2>2, <4>2, <4>3, <5>1 DEF Reads
        <5>3. wk'[v] = [IdleWorker EXCEPT !.num = frame_id]
          BY <4>1, <4>3, <5>2 DEF DaemonShape, ThreadShape
        <5>4. wk'[v].i = 0 /\ wk'[v].num = frame_id
          BY <5>3 DEF IdleWorker
        <5> QED BY <1>s, <2>2, <4>3, <5>2, <5>4 DEF AloneReads
      <4> QED BY <4>3 DEF ThreadInv
    <3> QED BY <3>1, <3>2
  <2> QED BY <2>4, <2>5, <2>6 DEF MonthInv
<1>4. ASSUME NEW w \in Workers, WorkerInsert(w) PROVE MonthInv'
  <2>1. /\ Reads(w) /\ wk' = [wk EXCEPT ![w] = Advanced(w)]
        /\ UNCHANGED <<clock, start, next, session, receive_history, frame_id, history,
                       last_valid_month, overlapped>>
    BY <1>4 DEF WorkerInsert, Inserts, deviceVars, bufferVars
  <2>2. BufferInv'
    BY <1>i, <2>1, BufferKept
  <2>3. LastInv'
    BY <1>i, <2>1 DEF LastInv
  <2>4. ASSUME ~overlapped', NEW v \in Workers, Reads(v)' PROVE AloneReads(v)'
    <3>1. ~overlapped /\ AloneReads(w)
      BY <1>i, <2>1, <2>4 DEF ThreadInv
    <3>2. worker_month' = MonthOf[start + wk[w].i]
      BY <1>4, <3>1, InsertsRight
    <3>3. \A u \in Workers : u # w => wk'[u] = wk[u]
      BY <2>1 DEF DaemonShape, ThreadShape
    <3>4. \A u \in Workers : Reads(u)' => u = w
      BY <3>1, <3>3 DEF AloneReads, Reads
    <3>5. v = w /\ wk'[w] = Advanced(w)
      BY <2>1, <2>4, <3>4 DEF DaemonShape, ThreadShape
    <3>6. wk[w].i \in Nat /\ wk[w].num \in Nat
      BY DEF DaemonShape, ThreadShape
    <3>7. wk'[w].i < wk'[w].num
      BY <2>4, <3>5 DEF Reads
    <3>8. wk'[w] = [wk[w] EXCEPT !.i = @ + 1]
      BY <3>5, <3>7 DEF Advanced, IdleWorker
    <3>9. wk'[w].i = wk[w].i + 1 /\ wk'[w].num = wk[w].num
      BY <3>8 DEF DaemonShape, ThreadShape
    <3>10. wk'[w].num <= frame_id' /\ ~receive_history'
      BY <2>1, <3>1, <3>9 DEF AloneReads
    <3>11. start' + wk'[w].i - 1 = start + wk[w].i
      BY <1>s, <2>1, <3>6, <3>9
    <3> QED BY <3>2, <3>4, <3>5, <3>10, <3>11 DEF AloneReads
  <2> QED BY <2>2, <2>3, <2>4 DEF MonthInv, ThreadInv
<1>5. ASSUME NEW w \in Workers, WorkerInsertTorn(w) PROVE MonthInv'
  <2>1. PICK f \in DbFrames(next) : GetsFrame(f) /\ Buffers(f)
    BY <1>5 DEF WorkerInsertTorn
  <2>2. LastInv' /\ BufferInv'
    BY <1>i, <1>5, <2>1, ReceivesRight, BuffersRight DEF WorkerInsertTorn
  <2>3. overlapped'
    <3>1. receive_history /\ Reads(w) /\ overlapped' = overlapped
      BY <1>5, <2>1 DEF WorkerInsertTorn, Buffers, GetsFrame
    <3> QED BY <1>i, <3>1 DEF ThreadInv, AloneReads
  <2> QED BY <2>2, <2>3 DEF MonthInv, ThreadInv
<1>6. CASE Connect
  <2>1. /\ start' = Forgotten + 1 /\ next' = start' /\ frame_id' = 0
        /\ overlapped' = (IdleWorkers # Workers)
        /\ UNCHANGED <<clock, wk>>
    BY <1>6 DEF Connect, workerVars
  <2>2. start' \in Int /\ start' <= clock + 1
    BY <1>s, <2>1 DEF Forgotten
  <2>3. BufferInv'
    BY <1>s, <2>1, <2>2 DEF BufferInv
  <2>4. LastInv'
    BY <2>1, <2>2 DEF LastInv
  <2>5. ~overlapped' => \A w \in Workers : ~Reads(w)'
    <3>1. ~overlapped' => \A w \in Workers : wk[w] = IdleWorker
      BY <2>1 DEF IdleWorkers
    <3> QED BY <2>1, <3>1 DEF Reads, IdleWorker
  <2> QED BY <2>3, <2>4, <2>5 DEF MonthInv, ThreadInv
<1>7. CASE Disconnect
  <2>1. /\ session' = FALSE
        /\ UNCHANGED <<clock, start, next, receive_history, frame_id, history, wk,
                       worker_month, overlapped>>
    BY <1>7 DEF Disconnect, deviceVars, bufferVars, workerVars
  <2>2. BufferInv'
    BY <1>i, <2>1 DEF BufferInv, DbFrames, CanBeStrange
  <2>3. LastInv'
    BY <2>1 DEF LastInv
  <2>4. ThreadInv'
    BY <1>i, <2>1 DEF ThreadInv, AloneReads, Reads
  <2> QED BY <2>2, <2>3, <2>4 DEF MonthInv
<1>8. CASE Restart
  <2>1. /\ session' = FALSE /\ frame_id' = 0 /\ wk' = [w \in Workers |-> IdleWorker]
        /\ UNCHANGED <<clock, start, next>>
    BY <1>8 DEF Restart, deviceVars
  <2>2. BufferInv'
    BY <1>s, <1>i, <2>1 DEF BufferInv
  <2>3. LastInv'
    BY <2>1 DEF LastInv
  <2>4. ThreadInv'
    BY <2>1 DEF ThreadInv, Reads, IdleWorker
  <2> QED BY <2>2, <2>3, <2>4 DEF MonthInv
<1>9. CASE Tick
  <2>1. /\ clock' = clock + 1
        /\ UNCHANGED <<start, next, session, receive_history, frame_id, history, wk,
                       worker_month, last_valid_month, overlapped>>
    BY <1>9 DEF Tick, bufferVars, workerVars
  <2>2. BufferInv'
    <3>1. next <= clock' + 1
      BY <1>s, <1>i, <2>1 DEF BufferInv
    <3> QED BY <1>i, <2>1, <3>1 DEF BufferInv, DbFrames, CanBeStrange
  <2>3. LastInv'
    BY <1>i, <2>1 DEF LastInv
  <2>4. ThreadInv'
    BY <1>i, <2>1 DEF ThreadInv, AloneReads, Reads
  <2> QED BY <2>2, <2>3, <2>4 DEF MonthInv
<1>10. CASE CloseLive \/ UNCHANGED frameVars
  <2>1. UNCHANGED <<clock, start, next, session, receive_history, frame_id, history, wk,
                    worker_month, last_valid_month, overlapped>>
    BY <1>10 DEF CloseLive, frameVars, deviceVars, bufferVars, workerVars
  <2>2. BufferInv'
    BY <1>i, <2>1, BufferKept
  <2>3. LastInv'
    BY <1>i, <2>1 DEF LastInv
  <2>4. ThreadInv'
    BY <1>i, <2>1 DEF ThreadInv, AloneReads, Reads
  <2> QED BY <2>2, <2>3, <2>4 DEF MonthInv
<1> QED
  BY <1>1, <1>2, <1>3, <1>4, <1>5, <1>6, <1>7, <1>8, <1>9, <1>10, FrameSteps
  DEF FramesNext, Worker

\* The records that a step inserts.
RightRows ==
    ~overlapped => \A r \in rows' \ rows : r.minute # Never => r.month = MonthOf[r.minute]

LEMMA RowsStep ==
    ASSUME FirstFramesGood, LiveShape, DaemonShape, MonthInv, [Next]_vars
    PROVE  RightRows
<1>0. rows' = rows => RightRows
  BY DEF RightRows
<1>1. CASE InsertFrame
  <2>1. PICK f \in DbFrames(next) :
           GetsFrame(f) /\ rows' = rows \cup {Record(f, last_valid_month)}
    BY <1>1 DEF InsertFrame
  <2>2. FrameWaits
    BY <1>1 DEF InsertFrame
  <2>3. Record(f, last_valid_month).minute # Never =>
           Record(f, last_valid_month).month = MonthOf[Record(f, last_valid_month).minute]
    BY <2>1, <2>2, ReceivesRight
  <2> QED BY <2>1, <2>3 DEF RightRows
<1>2. ASSUME NEW w \in Workers, WorkerInsert(w) PROVE RightRows
  BY <1>2, InsertsRight DEF RightRows
<1>3. ASSUME NEW w \in Workers, WorkerInsertTorn(w) PROVE RightRows
  <2>1. receive_history /\ Reads(w)
    BY <1>3 DEF WorkerInsertTorn, Buffers
  <2>2. overlapped
    BY <2>1 DEF MonthInv, ThreadInv, AloneReads
  <2> QED BY <2>2 DEF RightRows
<1>4. CASE \/ BufferFrame \/ LiveFrame \/ CloseLive \/ Connect \/ Disconnect \/ Restart \/ Tick
           \/ UNCHANGED frameVars
  <2>1. rows' = rows
    BY <1>4 DEF BufferFrame, LiveFrame, CloseLive, Connect, Disconnect, Restart, Tick, frameVars
  <2> QED BY <1>0, <2>1
<1> QED
  BY <1>1, <1>2, <1>3, <1>4, FrameSteps DEF FramesNext, Worker

\* A record whose month came above 12 is stored under the month of its
\* minute, until history threads overlap, when the first frames of a session
\* and of a month are good, whatever the buffer and the device can hold and
\* wherever the sessions end.
THEOREM MonthsAreRight ==
    ASSUME FirstFramesGood
    PROVE  Spec => MonthRight
<1> DEFINE Inv == LiveShape /\ DaemonShape /\ MonthInv
<1>1. Init => Inv
  BY LiveShapeInit, DaemonShapeInit, MonthInit
<1>2. Inv /\ [Next]_vars => Inv'
  BY LiveShapeStep, DaemonShapeStep, MonthStep
<1>3. Inv /\ [Next]_vars => [RightRows]_frameVars
  BY RowsStep
<1> HIDE DEF Inv
<1> QED BY <1>1, <1>2, <1>3, SpecSafety, PTL DEF MonthRight, RightRows
===============================================================================
