-------------------------- MODULE MetricsHubProofs ---------------------------
(***************************************************************************)
(* What holds of the metrics hub for any viewers, any capacity of their    *)
(* channels and any number of streams, visits and samples.  The hub has    *)
(* one live stream or none, and a viewer who has not unsubscribed is a     *)
(* subscriber of it or his stream has ended.  Frames reach a viewer in     *)
(* order because a publisher still owes him what none of his frames is as  *)
(* new as; the newest is never lost because the room made by dropping the  *)
(* oldest can be taken by another publisher only.                          *)
(***************************************************************************)
EXTENDS MetricsHub, SequenceTheorems, TLAPS

StreamPcs == {"none", "opening", "reading", "publishing", "over"}
ViewPcs == {"idle", "watching", "writing", "leaving"}
Channels == [viewer : Viewers, visit : Nat]
FrameRecords == [from : StreamIds, n : Nat]

StreamRecords ==
    [pc : StreamPcs, cancelled : BOOLEAN, subscribers : SUBSET Channels,
     todo : SUBSET Channels, full : SUBSET Channels, select : 1..3, frame : Nat]

ViewRecords ==
    [pc : ViewPcs, visit : Nat, stream : StreamIds \cup {NoStream},
     frames : Seq(FrameRecords), got : Seq(FrameRecords), gone : BOOLEAN,
     released : BOOLEAN, done : BOOLEAN, since : Nat]

HubTypeOK ==
    /\ current \in StreamIds \cup {NoStream}
    /\ stream \in [StreamIds -> StreamRecords]
    /\ view \in [Viewers -> ViewRecords]
    /\ samples \in Nat

-----------------------------------------------------------------------------
(* Who subscribes to what.                                                 *)

\* The viewers that a stream has not been told of leaving.
Held(g) == {v \in Viewers : view[v].stream = g /\ ~view[v].released}

\* The hub's stream is the live one; the streams to come are untouched.
OneLive ==
    /\ \A g \in StreamIds : Live(g) <=> g = current
    /\ current # NoStream => stream[current].subscribers # {}
    /\ \A g \in StreamIds : stream[g].pc = "none" => stream[g] = Unstarted
    /\ \A g \in StreamIds : stream[g].pc = "over" => stream[g].cancelled

SubscribersHeld ==
    /\ current # NoStream =>
          stream[current].subscribers = {Channel(v) : v \in Held(current)}
    /\ \A v \in Viewers :
          /\ view[v].pc = "idle" => view[v].released
          /\ view[v].pc # "idle" => /\ view[v].stream \in StreamIds
                                    /\ stream[view[v].stream].pc # "none"
          /\ ~view[v].released => \/ view[v].stream = current
                                  \/ stream[view[v].stream].pc = "over"

ShareInv == HubTypeOK /\ OneLive /\ SubscribersHeld

-----------------------------------------------------------------------------
(* What a publisher still has to hand out, and to whom.                    *)

\* Channels are those of visits that began.
KnownChannels ==
    \A g \in StreamIds : \A ch \in stream[g].todo \cup stream[g].subscribers :
        ch.visit <= view[ch.viewer].visit

PublisherShape ==
    \A g \in StreamIds :
        /\ stream[g].todo # {} => stream[g].pc = "publishing"
        /\ stream[g].full \subseteq stream[g].todo
        /\ \A a, b \in stream[g].full : a = b
        /\ stream[g].frame <= samples

\* A frame is newer than whatever its stream sent before to those it is still
\* owed to, and than their coming.
OwedIsNew ==
    \A g \in StreamIds : \A ch \in stream[g].todo :
        Reading(ch) =>
            /\ stream[g].frame > view[ch.viewer].since
            /\ \A i \in DOMAIN Seen(ch.viewer) :
                  Seen(ch.viewer)[i].from = g => Seen(ch.viewer)[i].n < stream[g].frame

SeenInOrder ==
    \A v \in Viewers :
        /\ Len(view[v].frames) <= FrameBuffer
        /\ view[v].since <= samples
        /\ \A i \in DOMAIN Seen(v) : Seen(v)[i].n <= samples

\* No older stream has a frame to hand out to v.
Undisturbed(v, g) == \A h \in StreamIds \ {g} : stream[h].frame <= view[v].since

\* The room made by dropping the oldest is still there.
RoomMade ==
    \A g \in StreamIds : \A ch \in stream[g].full :
        stream[g].select = 3 /\ Reading(ch) /\ Undisturbed(ch.viewer, g)
            => Len(Frames(ch)) < FrameBuffer

\* The newest frame is owed to a viewer or the last he has.
NewestOwedOrSeen ==
    \A v \in Viewers :
        LET g == view[v].stream IN
        /\ view[v].pc # "idle" /\ ~view[v].released
        /\ Live(g) /\ stream[g].frame > view[v].since /\ Undisturbed(v, g)
        => \/ Channel(v) \in stream[g].todo
           \/ Seen(v) # << >> /\ Last(Seen(v)).n = stream[g].frame

FrameInv ==
    /\ KnownChannels /\ PublisherShape /\ OwedIsNew /\ SeenInOrder
    /\ FramesInOrder /\ RoomMade /\ NewestOwedOrSeen

-----------------------------------------------------------------------------
(* Types.                                                                  *)
LEMMA StreamFields ==
    ASSUME NEW r \in StreamRecords
    PROVE  /\ r.pc \in StreamPcs /\ r.cancelled \in BOOLEAN /\ r.select \in 1..3
           /\ r.frame \in Nat /\ r.subscribers \subseteq Channels
           /\ r.todo \subseteq Channels /\ r.full \subseteq Channels
    BY DEF StreamRecords

LEMMA ViewFields ==
    ASSUME NEW r \in ViewRecords
    PROVE  /\ r.pc \in ViewPcs /\ r.visit \in Nat /\ r.since \in Nat
           /\ r.stream \in StreamIds \cup {NoStream}
           /\ r.frames \in Seq(FrameRecords) /\ r.got \in Seq(FrameRecords)
           /\ r.gone \in BOOLEAN /\ r.released \in BOOLEAN /\ r.done \in BOOLEAN
    BY DEF ViewRecords

LEMMA AwayTyped == Away \in ViewRecords
    <1>1. << >> \in Seq(FrameRecords)
        OBVIOUS
    <1> QED BY <1>1 DEF Away, ViewRecords, ViewPcs

LEMMA QueueTyped ==
    ASSUME NEW r \in StreamRecords, NEW p \in StreamPcs, NEW n \in Nat, NEW k \in 1..3,
           NEW S \in SUBSET Channels, NEW T \in SUBSET Channels
    PROVE  /\ [r EXCEPT !.todo = S, !.frame = n, !.pc = p] \in StreamRecords
           /\ [r EXCEPT !.todo = S, !.full = T, !.select = k, !.pc = p] \in StreamRecords
           /\ [r EXCEPT !.full = T, !.select = k] \in StreamRecords
    BY DEF StreamRecords

LEMMA ChannelTyped ==
    ASSUME HubTypeOK, NEW v \in Viewers
    PROVE  /\ Channel(v) \in Channels
           /\ Channel(v).viewer = v
           /\ Channel(v).visit = view[v].visit
    BY ViewFields DEF HubTypeOK, Channel, Channels

LEMMA FrameTyped ==
    ASSUME HubTypeOK, NEW g \in StreamIds
    PROVE  /\ Frame(g) \in FrameRecords
           /\ Frame(g).from = g
           /\ Frame(g).n = stream[g].frame
    BY StreamFields DEF HubTypeOK, Frame, FrameRecords

LEMMA OldestTyped ==
    ASSUME NEW frames \in Seq(FrameRecords)
    PROVE  WithoutOldest(frames) \in Seq(FrameRecords)
    BY DEF WithoutOldest

LEMMA SubscribersTyped ==
    ASSUME HubTypeOK
    PROVE  SubscribersOf(current) \subseteq Channels
    BY StreamFields DEF HubTypeOK, SubscribersOf

(* Storing frames in a channel changes the frames of its visit only.       *)
LEMMA FramesStored ==
    ASSUME HubTypeOK, NEW ch \in Channels, NEW frames \in Seq(FrameRecords),
           SetFrames(ch, frames)
    PROVE  /\ Reading(ch) => view' = [view EXCEPT ![ch.viewer].frames = frames]
           /\ ~Reading(ch) => view' = view
           /\ view' \in [Viewers -> ViewRecords]
    <1>1. ch.viewer \in Viewers
        BY DEF Channels
    <1>2. [view[ch.viewer] EXCEPT !.frames = frames] \in ViewRecords
        BY <1>1 DEF HubTypeOK, ViewPcs, ViewRecords
    <1> QED
        BY <1>1, <1>2 DEF HubTypeOK, SetFrames

LEMMA SubscribeTyped ==
    ASSUME HubTypeOK, NEW v \in Viewers, Subscribe(v)
    PROVE  HubTypeOK'
    <1> DEFINE channel == [viewer |-> v, visit |-> view[v].visit + 1]
    <1>1. channel \in Channels
        BY ViewFields DEF HubTypeOK, Channels
    <1>2. PICK g \in StreamIds :
            /\ current' = g
            /\ stream' = [stream EXCEPT ![g].subscribers = @ \cup {channel},
                                        ![g].pc = IF @ = "none" THEN "opening" ELSE @]
            /\ view' = [view EXCEPT ![v] =
                 [Away EXCEPT !.pc = "watching", !.visit = channel.visit, !.stream = g,
                              !.released = FALSE, !.since = samples]]
        BY DEF Subscribe
    <1>3. channel.visit \in Nat
        BY <1>1 DEF Channels
    <1> HIDE DEF channel
    <1>4. [Away EXCEPT !.pc = "watching", !.visit = channel.visit, !.stream = g,
                       !.released = FALSE, !.since = samples] \in ViewRecords
        BY <1>3, AwayTyped DEF HubTypeOK, ViewPcs, ViewRecords
    <1>5. /\ stream[g].subscribers \cup {channel} \in SUBSET Channels
          /\ (IF stream[g].pc = "none" THEN "opening" ELSE stream[g].pc) \in StreamPcs
        BY <1>1, StreamFields DEF HubTypeOK, StreamPcs
    <1>6. [stream[g] EXCEPT !.subscribers = @ \cup {channel},
                            !.pc = IF @ = "none" THEN "opening" ELSE @] \in StreamRecords
        BY <1>5 DEF HubTypeOK, StreamRecords
    <1> QED
        BY <1>2, <1>4, <1>6 DEF Subscribe, HubTypeOK

LEMMA UnsubscribedTyped ==
    ASSUME HubTypeOK, NEW v \in Viewers, Unsubscribed(v)
    PROVE  /\ current' \in StreamIds \cup {NoStream}
           /\ stream' \in [StreamIds -> StreamRecords]
    <1> DEFINE g == view[v].stream
               left == stream[g].subscribers \ {Channel(v)}
    <1>1. CASE view[v].released \/ current # g
        BY <1>1 DEF Unsubscribed, HubTypeOK
    <1>2. CASE ~(view[v].released \/ current # g) /\ g \in StreamIds
        <2>1. left \subseteq Channels /\ (stream[g].cancelled \/ Emptied(g, left)) \in BOOLEAN
            BY <1>2, StreamFields DEF HubTypeOK, Emptied
        <2>2. [stream[g] EXCEPT !.subscribers = left,
                                !.cancelled = @ \/ Emptied(g, left)] \in StreamRecords
            BY <1>2, <2>1 DEF HubTypeOK, StreamRecords
        <2> QED BY <1>2, <2>2 DEF Unsubscribed, HubTypeOK
    <1>3. CASE ~(view[v].released \/ current # g) /\ g \notin StreamIds
        BY <1>3 DEF Unsubscribed, HubTypeOK
    <1> QED BY <1>1, <1>2, <1>3

LEMMA ServedTyped ==
    ASSUME HubTypeOK, NEW g \in StreamIds, NEW ch, ServedTo(g, ch)
    PROVE  stream' \in [StreamIds -> StreamRecords]
    <1> DEFINE left == stream[g].todo \ {ch}
               next == IF left = {} THEN "reading" ELSE "publishing"
    <1>1. left \in SUBSET Channels /\ next \in StreamPcs /\ {} \in SUBSET Channels
        BY StreamFields DEF HubTypeOK, StreamPcs
    <1>2. stream' = [stream EXCEPT ![g].todo = left, ![g].full = {}, ![g].select = 1,
                                   ![g].pc = next]
        BY DEF ServedTo
    <1> HIDE DEF left, next
    <1>3. [stream[g] EXCEPT !.todo = left, !.full = {}, !.select = 1, !.pc = next]
            \in StreamRecords
        <2>1. stream[g] \in StreamRecords /\ {} \in SUBSET Channels /\ 1 \in 1..3
            BY DEF HubTypeOK
        <2> QED BY <1>1, <2>1, QueueTyped
    <1> QED BY <1>2, <1>3 DEF HubTypeOK

LEMMA PublishTyped ==
    ASSUME HubTypeOK, NEW g \in StreamIds, Publish(g)
    PROVE  HubTypeOK'
    <1>1. PICK ch \in stream[g].todo :
            Offer(g, ch) \/ FindFull(g, ch) \/ DropOldest(g, ch) \/ OfferAgain(g, ch)
        BY DEF Publish
    <1>2. ch \in Channels /\ ch.viewer \in Viewers
        BY StreamFields DEF HubTypeOK, Channels
    <1>3. Frames(ch) \in Seq(FrameRecords)
        BY <1>2, ViewFields DEF HubTypeOK, Frames
    <1>4. Append(Frames(ch), Frame(g)) \in Seq(FrameRecords)
        BY <1>3, FrameTyped
    <1>5. WithoutOldest(Frames(ch)) \in Seq(FrameRecords)
        BY <1>3, OldestTyped
    <1>6. view' \in [Viewers -> ViewRecords]
        <2>1. CASE Offer(g, ch)
            BY <1>2, <1>4, <2>1, FramesStored DEF Offer
        <2>2. CASE FindFull(g, ch)
            BY <2>2 DEF FindFull, HubTypeOK
        <2>3. CASE DropOldest(g, ch)
            BY <1>2, <1>5, <2>3, FramesStored DEF DropOldest
        <2>4. CASE OfferAgain(g, ch)
            BY <1>2, <1>4, <2>4, FramesStored DEF OfferAgain, HubTypeOK
        <2> QED BY <1>1, <2>1, <2>2, <2>3, <2>4
    <1>7. stream' \in [StreamIds -> StreamRecords]
        <2>1. CASE Offer(g, ch) \/ OfferAgain(g, ch)
            BY <2>1, ServedTyped DEF Offer, OfferAgain
        <2>2. CASE FindFull(g, ch)
            <3>1. [stream[g] EXCEPT !.full = {ch}, !.select = 2] \in StreamRecords
                <4>1. /\ stream[g] \in StreamRecords /\ stream[g].pc \in StreamPcs
                      /\ {ch} \in SUBSET Channels /\ 2 \in 1..3 /\ 0 \in Nat
                    BY <1>2, StreamFields DEF HubTypeOK
                <4> QED BY <4>1, QueueTyped
            <3> QED BY <2>2, <3>1 DEF FindFull, HubTypeOK
        <2>3. CASE DropOldest(g, ch)
            <3>1. [stream[g] EXCEPT !.select = 3] \in StreamRecords
                BY DEF HubTypeOK, StreamPcs, StreamRecords
            <3> QED BY <2>3, <3>1 DEF DropOldest, HubTypeOK
        <2> QED BY <1>1, <2>1, <2>2, <2>3
    <1> QED
        BY <1>6, <1>7 DEF Publish, HubTypeOK

LEMMA NextTyped ==
    ASSUME HubTypeOK, [HubNext]_hubVars
    PROVE  HubTypeOK'
    <1>1. ASSUME NEW g \in StreamIds, StreamWorks(g) \/ Sample(g) \/ Broken(g)
          PROVE  HubTypeOK'
        <2>1. CASE Open(g)
            <3>1. [stream[g] EXCEPT !.pc = "reading"] \in StreamRecords
                BY DEF HubTypeOK, StreamPcs, StreamRecords
            <3> QED BY <2>1, <3>1 DEF Open, GoStream, HubTypeOK
        <2>2. CASE Publish(g)
            BY <2>2, PublishTyped
        <2>3. CASE Sample(g)
            <3> DEFINE next == IF SubscribersOf(g) = {} THEN stream[g].pc ELSE "publishing"
            <3>1. SubscribersOf(g) \in SUBSET Channels /\ samples' \in Nat /\ next \in StreamPcs
                BY <2>3, StreamFields DEF Sample, SubscribersOf, HubTypeOK, StreamPcs
            <3>2. stream' = [stream EXCEPT ![g].todo = SubscribersOf(g), ![g].frame = samples',
                                           ![g].pc = next]
                BY <2>3 DEF Sample
            <3> HIDE DEF next
            <3>3. [stream[g] EXCEPT !.todo = SubscribersOf(g), !.frame = samples', !.pc = next]
                    \in StreamRecords
                <4>1. stream[g] \in StreamRecords /\ {} \in SUBSET Channels /\ 1 \in 1..3
                    BY DEF HubTypeOK
                <4> QED BY <3>1, <4>1, QueueTyped
            <3>4. stream' \in [StreamIds -> StreamRecords]
                BY <3>2, <3>3 DEF HubTypeOK
            <3> QED BY <2>3, <3>1, <3>4 DEF Sample, HubTypeOK
        <2>4. CASE End(g)
            <3>1. [stream[g] EXCEPT !.pc = "over", !.cancelled = TRUE] \in StreamRecords
                BY DEF HubTypeOK, StreamPcs, StreamRecords
            <3> QED BY <2>4, <3>1 DEF End, HubTypeOK
        <2> QED BY <1>1, <2>1, <2>2, <2>3, <2>4 DEF StreamWorks, Stopped, Broken
    <1>2. ASSUME NEW v \in Viewers,
                 ViewWorks(v) \/ Subscribe(v) \/ HangUp(v) \/ PingFails(v)
          PROVE  HubTypeOK'
        <2>0. view[v] \in ViewRecords
            BY DEF HubTypeOK
        <2>1. CASE Receive(v)
            <3>1. Head(view[v].frames) \in FrameRecords /\ Tail(view[v].frames) \in Seq(FrameRecords)
                BY <2>0, <2>1, ViewFields DEF Receive
            <3>2. <<Head(view[v].frames)>> \in Seq(FrameRecords)
                BY <3>1
            <3>3. [view[v] EXCEPT !.pc = "writing", !.got = <<Head(view[v].frames)>>,
                                  !.frames = Tail(@)] \in ViewRecords
                BY <2>0, <3>1, <3>2 DEF ViewPcs, ViewRecords
            <3> QED BY <2>1, <3>3 DEF Receive, HubTypeOK
        <2>2. CASE Written(v) \/ WriteFails(v) \/ SeeEnd(v) \/ HangUp(v) \/ PingFails(v)
            <3>1. /\ [view[v] EXCEPT !.pc = "watching"] \in ViewRecords
                  /\ [view[v] EXCEPT !.pc = "leaving"] \in ViewRecords
                  /\ [view[v] EXCEPT !.pc = "leaving", !.done = TRUE] \in ViewRecords
                  /\ [view[v] EXCEPT !.gone = TRUE] \in ViewRecords
                  /\ [view[v] EXCEPT !.done = TRUE] \in ViewRecords
                BY <2>0 DEF ViewPcs, ViewRecords
            <3> QED
                BY <2>2, <3>1 DEF Written, WriteFails, SeeEnd, HangUp, PingFails, GoView, HubTypeOK
        <2>3. CASE Leave(v)
            <3>1. [Away EXCEPT !.visit = view[v].visit] \in ViewRecords
                BY <2>0, AwayTyped DEF ViewRecords
            <3> QED BY <2>3, <3>1, UnsubscribedTyped DEF Leave, HubTypeOK
        <2>4. CASE ReaderUnsubscribes(v)
            <3>1. [view[v] EXCEPT !.done = TRUE, !.released = TRUE] \in ViewRecords
                BY <2>0 DEF ViewPcs, ViewRecords
            <3> QED BY <2>4, <3>1, UnsubscribedTyped DEF ReaderUnsubscribes, HubTypeOK
        <2>5. CASE Subscribe(v)
            BY <2>5, SubscribeTyped
        <2> QED BY <1>2, <2>1, <2>2, <2>3, <2>4, <2>5 DEF ViewWorks
    <1>3. CASE UNCHANGED hubVars
        BY <1>3 DEF hubVars, HubTypeOK
    <1> QED BY <1>1, <1>2, <1>3 DEF HubNext

-----------------------------------------------------------------------------
(* One stream is live, and its subscribers are the viewers who stay.       *)
LEMMA InitShared == HubInit => ShareInv
    <1> SUFFICES ASSUME HubInit PROVE ShareInv
        OBVIOUS
    <1>1. NoStream \notin StreamIds
        BY HubBoundsAssumption DEF NoStream, StreamIds
    <1>2. Unstarted \in StreamRecords
        BY DEF Unstarted, StreamRecords, StreamPcs
    <1>3. HubTypeOK
        BY <1>2, AwayTyped DEF HubInit, HubTypeOK
    <1>4. OneLive
        BY <1>1 DEF HubInit, OneLive, Live, Unstarted
    <1>5. SubscribersHeld
        BY <1>1 DEF HubInit, SubscribersHeld, Away
    <1> QED BY <1>3, <1>4, <1>5 DEF ShareInv

(* A step that leaves alone who subscribes, who has unsubscribed and which *)
(* streams are live.                                                       *)
LEMMA ShareKept ==
    ASSUME ShareInv, HubTypeOK', current' = current,
           \A g \in StreamIds :
              /\ stream'[g].subscribers = stream[g].subscribers
              /\ stream'[g].cancelled = stream[g].cancelled
              /\ stream[g].pc = "none" => stream'[g] = stream[g]
              /\ stream'[g].pc = "none" => stream[g].pc = "none"
              /\ stream'[g].pc = "over" <=> stream[g].pc = "over",
           \A v \in Viewers :
              /\ view'[v].visit = view[v].visit
              /\ view'[v].stream = view[v].stream
              /\ view'[v].released = view[v].released
              /\ view'[v].pc = "idle" <=> view[v].pc = "idle"
    PROVE  ShareInv'
    <1>1. OneLive'
        <2>1. \A g \in StreamIds : Live(g)' <=> Live(g)
            BY DEF Live
        <2> QED BY <2>1 DEF ShareInv, OneLive, HubTypeOK
    <1>2. SubscribersHeld'
        <2>1. \A g \in StreamIds : Held(g)' = Held(g)
            BY DEF Held
        <2>2. \A v \in Viewers : Channel(v)' = Channel(v)
            BY DEF Channel
        <2>3. \A g \in StreamIds :
                {Channel(v) : v \in Held(g)}' = {Channel(v) : v \in Held(g)}
            BY <2>1, <2>2 DEF Held
        <2>4. current' # NoStream =>
                stream'[current'].subscribers = {Channel(v) : v \in Held(current)}'
            <3> SUFFICES ASSUME current # NoStream
                         PROVE  stream'[current].subscribers = {Channel(v) : v \in Held(current)}'
                OBVIOUS
            <3>1. current \in StreamIds
                BY DEF ShareInv, HubTypeOK
            <3>2. Held(current)' = Held(current)
                BY <2>1, <3>1 DEF Held
            <3> QED BY <2>2, <3>1, <3>2 DEF ShareInv, SubscribersHeld, Held
        <2>5. ASSUME NEW v \in Viewers
              PROVE  /\ view'[v].pc = "idle" => view'[v].released
                     /\ view'[v].pc # "idle" => /\ view'[v].stream \in StreamIds
                                                /\ stream'[view'[v].stream].pc # "none"
                     /\ ~view'[v].released => \/ view'[v].stream = current'
                                              \/ stream'[view'[v].stream].pc = "over"
            <3>1. ~view[v].released => view[v].stream \in StreamIds
                BY DEF ShareInv, SubscribersHeld
            <3> QED BY <3>1 DEF ShareInv, SubscribersHeld
        <2> QED BY <2>4, <2>5 DEF SubscribersHeld
    <1> QED BY <1>1, <1>2 DEF ShareInv

(* Channels of different viewers are different.                            *)
LEMMA ChannelsDiffer ==
    ASSUME NEW v \in Viewers, NEW u \in Viewers, Channel(v) = Channel(u)
    PROVE  v = u
    BY DEF Channel

LEMMA SubscribeShared ==
    ASSUME ShareInv, HubTypeOK', NEW v \in Viewers, Subscribe(v)
    PROVE  ShareInv'
    <1> DEFINE channel == [viewer |-> v, visit |-> view[v].visit + 1]
    <1>0. NoStream \notin StreamIds
        BY HubBoundsAssumption DEF NoStream, StreamIds
    <1>1. PICK g \in StreamIds :
            /\ IF current = NoStream THEN stream[g].pc = "none" ELSE g = current
            /\ current' = g
            /\ stream' = [stream EXCEPT ![g].subscribers = @ \cup {channel},
                                        ![g].pc = IF @ = "none" THEN "opening" ELSE @]
            /\ view' = [view EXCEPT ![v] =
                 [Away EXCEPT !.pc = "watching", !.visit = channel.visit, !.stream = g,
                              !.released = FALSE, !.since = samples]]
        BY DEF Subscribe
    <1>2. view[v].pc = "idle" /\ view[v].released
        BY DEF Subscribe
    <1>3. /\ view'[v].pc = "watching" /\ view'[v].visit = channel.visit
          /\ view'[v].stream = g /\ ~view'[v].released
          /\ \A u \in Viewers \ {v} : view'[u] = view[u]
        BY <1>1 DEF ShareInv, HubTypeOK, Away
    <1>4. /\ stream'[g].subscribers = stream[g].subscribers \cup {channel}
          /\ stream'[g].pc = IF stream[g].pc = "none" THEN "opening" ELSE stream[g].pc
          /\ stream'[g].cancelled = stream[g].cancelled
          /\ \A h \in StreamIds \ {g} : stream'[h] = stream[h]
        BY <1>1 DEF ShareInv, HubTypeOK, StreamRecords
    <1>5. Channel(v)' = channel /\ \A u \in Viewers \ {v} : Channel(u)' = Channel(u)
        BY <1>3 DEF Channel
    <1> HIDE DEF channel
    <1>6. /\ stream[g].pc # "over" /\ ~stream[g].cancelled
          /\ stream[g].pc = "none" => current = NoStream /\ stream[g].subscribers = {}
          /\ stream[g].pc # "none" => current = g
        BY <1>0, <1>1 DEF ShareInv, OneLive, Live, Unstarted
    <1>7. OneLive'
        <2>1. Live(g)'
            BY <1>4, <1>6 DEF Live
        <2>2. \A h \in StreamIds \ {g} : ~Live(h) /\ Live(h)' = Live(h)
            BY <1>1, <1>4, <1>6, <1>0 DEF Live, ShareInv, OneLive
        <2>3. \A h \in StreamIds : stream'[h].pc = "none" => stream'[h] = Unstarted
            BY <1>4 DEF ShareInv, OneLive
        <2>4. \A h \in StreamIds : stream'[h].pc = "over" => stream'[h].cancelled
            BY <1>4, <1>6 DEF ShareInv, OneLive
        <2> QED BY <1>1, <1>4, <2>1, <2>2, <2>3, <2>4 DEF OneLive
    <1>8. Held(g)' = Held(g) \cup {v}
        BY <1>3 DEF Held
    <1>9. stream[g].subscribers = {Channel(u) : u \in Held(g)}
        <2>1. CASE stream[g].pc = "none"
            <3>1. Held(g) = {}
                BY <1>0, <1>6, <2>1 DEF Held, ShareInv, SubscribersHeld
            <3> QED BY <1>6, <2>1, <3>1
        <2>2. CASE stream[g].pc # "none"
            BY <1>0, <1>6, <2>2 DEF ShareInv, SubscribersHeld
        <2> QED BY <2>1, <2>2
    <1>10. v \notin Held(g)
        BY <1>2 DEF Held
    <1>11. stream'[g].subscribers = {Channel(u) : u \in Held(g)}'
        BY <1>4, <1>5, <1>8, <1>9, <1>10 DEF Held
    <1>12. SubscribersHeld'
        <2>1. ASSUME NEW u \in Viewers \ {v}
              PROVE  /\ view'[u].pc = "idle" => view'[u].released
                     /\ view'[u].pc # "idle" => /\ view'[u].stream \in StreamIds
                                                /\ stream'[view'[u].stream].pc # "none"
                     /\ ~view'[u].released => \/ view'[u].stream = current'
                                              \/ stream'[view'[u].stream].pc = "over"
            <3>1. view'[u] = view[u]
                BY <1>3
            <3>2. u \in Viewers
                OBVIOUS
            <3>3. ~view[u].released => view[u].stream \in StreamIds
                BY <3>2 DEF ShareInv, SubscribersHeld
            <3>4. view[u].pc # "idle" =>
                    view[u].stream \in StreamIds /\ stream'[view[u].stream].pc # "none"
                BY <1>4, <3>2 DEF ShareInv, SubscribersHeld
            <3>5. ASSUME ~view[u].released
                  PROVE  view[u].stream = g \/ stream'[view[u].stream].pc = "over"
                <4>1. CASE view[u].stream = current
                    BY <1>0, <1>1, <3>3, <3>5, <4>1
                <4>2. CASE stream[view[u].stream].pc = "over"
                    BY <1>4, <3>3, <3>5, <4>2
                <4> QED BY <3>2, <3>5, <4>1, <4>2 DEF ShareInv, SubscribersHeld
            <3> QED BY <1>1, <3>1, <3>2, <3>4, <3>5 DEF ShareInv, SubscribersHeld
        <2>2. stream'[g].pc # "none"
            BY <1>4
        <2> QED BY <1>1, <1>3, <1>11, <2>1, <2>2 DEF SubscribersHeld
    <1> QED BY <1>7, <1>12 DEF ShareInv

(* Unsubscribing a viewer who is released by the same step.                *)
LEMMA UnsubscribeShared ==
    ASSUME ShareInv, HubTypeOK', NEW v \in Viewers, Unsubscribed(v),
           \A u \in Viewers \ {v} : view'[u] = view[u],
           view'[v].released, view'[v].visit = view[v].visit,
           view'[v].pc # "idle" => view[v].pc # "idle" /\ view'[v].stream = view[v].stream
    PROVE  ShareInv'
    <1> DEFINE g == view[v].stream
               left == stream[g].subscribers \ {Channel(v)}
    <1>0. NoStream \notin StreamIds
        BY HubBoundsAssumption DEF NoStream, StreamIds
    <1>1. \A u \in Viewers : Channel(u)' = Channel(u)
        BY DEF Channel
    <1>2. \A h : Held(h)' = Held(h) \ {v}
        BY DEF Held
    <1>3. ASSUME \A h \in StreamIds : stream'[h].pc = stream[h].pc
          PROVE  /\ view'[v].pc # "idle" => /\ view'[v].stream \in StreamIds
                                            /\ stream'[view'[v].stream].pc # "none"
                 /\ \A u \in Viewers \ {v} :
                      /\ view'[u].pc = "idle" => view'[u].released
                      /\ view'[u].pc # "idle" => /\ view'[u].stream \in StreamIds
                                                 /\ stream'[view'[u].stream].pc # "none"
        BY <1>3 DEF ShareInv, SubscribersHeld
    <1>4. CASE view[v].released \/ current # g
        <2>1. UNCHANGED <<current, stream>>
            BY <1>4 DEF Unsubscribed
        <2>2. OneLive'
            BY <2>1 DEF ShareInv, OneLive, Live
        <2>3. current # NoStream => Held(current)' = Held(current)
            BY <1>2, <1>4, <2>1 DEF Held
        <2>4. current # NoStream =>
                {Channel(u) : u \in Held(current)}' = {Channel(u) : u \in Held(current)}
            BY <1>1, <2>1, <2>3 DEF Held
        <2>5. SubscribersHeld'
            BY <1>3, <2>1, <2>4 DEF ShareInv, SubscribersHeld
        <2> QED BY <2>2, <2>5 DEF ShareInv
    <1>5. CASE ~view[v].released /\ current = g
        <2>1. g \in StreamIds
            BY <1>5 DEF ShareInv, SubscribersHeld
        <2>2. /\ stream' = [stream EXCEPT ![g].subscribers = left,
                                          ![g].cancelled = @ \/ Emptied(g, left)]
              /\ current' = IF Emptied(g, left) THEN NoStream ELSE current
            BY <1>5 DEF Unsubscribed
        <2>3. /\ stream'[g].subscribers = left
              /\ stream'[g].pc = stream[g].pc
              /\ \A h \in StreamIds \ {g} : stream'[h] = stream[h]
            BY <2>1, <2>2 DEF ShareInv, HubTypeOK, StreamRecords
        <2>4. stream'[g].cancelled <=> stream[g].cancelled \/ left = {}
            BY <2>1, <2>2, Zenon DEF ShareInv, HubTypeOK, StreamRecords, Emptied
        <2>5. current' = IF left = {} THEN NoStream ELSE current
            BY <2>2 DEF Emptied
        <2>6. \A h \in StreamIds : stream'[h].pc = stream[h].pc
            BY <2>3
        <2>7. Live(g)
            BY <1>5, <2>1 DEF ShareInv, OneLive
        <2>k. PICK k \in StreamIds : k = g
            BY <2>1
        <2>8. Live(k)' <=> left # {}
            BY <2>k, <2>3, <2>4, <2>7 DEF Live
        <2>9. stream[g].subscribers = {Channel(u) : u \in Held(g)}
            BY <1>0, <1>5, <2>1 DEF ShareInv, SubscribersHeld
        <2>10. left = {Channel(u) : u \in Held(g) \ {v}}
            BY <2>9, ChannelsDiffer DEF Held
        <2> HIDE DEF left
        <2>11. \A h \in StreamIds \ {k} : ~Live(h) /\ ~Live(h)'
            BY <1>5, <2>3, <2>k DEF ShareInv, OneLive, Live
        <2>12. OneLive'
            <3>1. \A h \in StreamIds : Live(h)' <=> h = current'
                <4>1. Live(k)' <=> k = current'
                    BY <1>0, <1>5, <2>k, <2>5, <2>8
                <4>2. ASSUME NEW h \in StreamIds \ {k} PROVE ~Live(h)' /\ h # current'
                    BY <1>0, <1>5, <2>k, <2>5, <2>11
                <4> QED BY <4>1, <4>2
            <3>2. current' # NoStream => stream'[current'].subscribers # {}
                BY <1>5, <2>3, <2>5
            <3>3. \A h \in StreamIds : stream'[h].pc = "none" => stream'[h] = Unstarted
                BY <2>3, <2>7 DEF ShareInv, OneLive, Live
            <3>4. \A h \in StreamIds : stream'[h].pc = "over" => stream'[h].cancelled
                BY <2>3, <2>7 DEF ShareInv, OneLive, Live
            <3> QED BY <3>1, <3>2, <3>3, <3>4 DEF OneLive
        <2>13. current' # NoStream =>
                 stream'[current'].subscribers = {Channel(u) : u \in Held(current)}'
            <3> SUFFICES ASSUME current' # NoStream
                         PROVE  stream'[g].subscribers = {Channel(u) : u \in Held(current)}'
                BY <1>5, <2>5
            <3>1. current' = g
                BY <1>5, <2>5
            <3>2. Held(current)' = Held(g) \ {v}
                BY <1>2, <3>1 DEF Held
            <3> QED BY <1>1, <2>3, <2>10, <3>2 DEF Held
        <2>14. ASSUME NEW u \in Viewers \ {v}, ~view'[u].released
               PROVE  \/ view'[u].stream = current'
                      \/ stream'[view'[u].stream].pc = "over"
            <3>1. view'[u] = view[u] /\ u \in Viewers
                OBVIOUS
            <3>2. view[u].stream \in StreamIds
                BY <2>14, <3>1 DEF ShareInv, SubscribersHeld
            <3>3. CASE view[u].stream = g
                <4>1. u \in Held(g) \ {v}
                    BY <2>14, <3>1, <3>3 DEF Held
                <4>2. left # {}
                    BY <2>10, <4>1
                <4> QED BY <1>5, <2>5, <3>1, <3>3, <4>2
            <3>4. CASE view[u].stream # g
                BY <1>5, <2>6, <2>14, <3>1, <3>2, <3>4 DEF ShareInv, SubscribersHeld
            <3> QED BY <3>3, <3>4
        <2>15. SubscribersHeld'
            BY <1>3, <2>6, <2>13, <2>14 DEF SubscribersHeld
        <2> QED BY <2>12, <2>15 DEF ShareInv
    <1> QED BY <1>4, <1>5

LEMMA EndShared ==
    ASSUME ShareInv, HubTypeOK', NEW g \in StreamIds, End(g)
    PROVE  ShareInv'
    <1>0. NoStream \notin StreamIds
        BY HubBoundsAssumption DEF NoStream, StreamIds
    <1>1. /\ current' = IF current = g THEN NoStream ELSE current
          /\ view' = view
          /\ stream'[g].pc = "over" /\ stream'[g].cancelled
          /\ \A h \in StreamIds \ {g} : stream'[h] = stream[h]
        BY DEF End, ShareInv, HubTypeOK, StreamRecords
    <1>2. OneLive'
        <2>1. ~Live(g)' /\ \A h \in StreamIds \ {g} : Live(h)' <=> Live(h)
            BY <1>1 DEF Live
        <2>2. \A h \in StreamIds : Live(h)' <=> h = current'
            BY <1>0, <1>1, <2>1 DEF ShareInv, OneLive
        <2> QED BY <1>1, <2>2 DEF ShareInv, OneLive, HubTypeOK
    <1>3. SubscribersHeld'
        <2>1. \A h : {Channel(v) : v \in Held(h)}' = {Channel(v) : v \in Held(h)}
            BY <1>1 DEF Channel, Held
        <2>2. current' # NoStream =>
                stream'[current'].subscribers = {Channel(v) : v \in Held(current)}'
            BY <1>1, <2>1 DEF ShareInv, SubscribersHeld, HubTypeOK
        <2>3. ASSUME NEW v \in Viewers
              PROVE  /\ view'[v].pc = "idle" => view'[v].released
                     /\ view'[v].pc # "idle" => /\ view'[v].stream \in StreamIds
                                                /\ stream'[view'[v].stream].pc # "none"
                     /\ ~view'[v].released => \/ view'[v].stream = current'
                                              \/ stream'[view'[v].stream].pc = "over"
            <3>1. ~view[v].released => view[v].stream \in StreamIds
                BY DEF ShareInv, SubscribersHeld
            <3> QED BY <1>1, <3>1 DEF ShareInv, SubscribersHeld
        <2> QED BY <2>2, <2>3 DEF SubscribersHeld
    <1> QED BY <1>2, <1>3 DEF ShareInv

-----------------------------------------------------------------------------
(* What the steps of a publisher change.                                   *)
OnlyFrames(v) ==
    /\ view'[v].pc = view[v].pc /\ view'[v].visit = view[v].visit
    /\ view'[v].stream = view[v].stream /\ view'[v].got = view[v].got
    /\ view'[v].released = view[v].released /\ view'[v].since = view[v].since

LEMMA StoredFields ==
    ASSUME HubTypeOK, NEW ch \in Channels, NEW frames \in Seq(FrameRecords),
           SetFrames(ch, frames)
    PROVE  /\ \A v \in Viewers : OnlyFrames(v)
           /\ \A v \in Viewers : ~(Reading(ch) /\ v = ch.viewer) => view'[v] = view[v]
           /\ Reading(ch) => view'[ch.viewer].frames = frames
    <1>1. ch.viewer \in Viewers
        BY DEF Channels
    <1>2. CASE Reading(ch)
        <2>1. view' = [view EXCEPT ![ch.viewer].frames = frames]
            BY <1>2, FramesStored
        <2>2. \A v \in Viewers \ {ch.viewer} : view'[v] = view[v]
            BY <2>1 DEF HubTypeOK
        <2>3. view'[ch.viewer] = [view[ch.viewer] EXCEPT !.frames = frames]
            BY <1>1, <2>1 DEF HubTypeOK
        <2>4. view'[ch.viewer].frames = frames /\ OnlyFrames(ch.viewer)
            BY <1>1, <2>3 DEF HubTypeOK, ViewRecords, OnlyFrames
        <2> QED BY <1>2, <2>2, <2>4 DEF OnlyFrames
    <1>3. CASE ~Reading(ch)
        BY <1>3, FramesStored DEF OnlyFrames
    <1> QED BY <1>2, <1>3

LEMMA ServedFields ==
    ASSUME HubTypeOK, NEW g \in StreamIds, NEW ch, ServedTo(g, ch),
           stream[g].pc = "publishing"
    PROVE  /\ \A h \in StreamIds \ {g} : stream'[h] = stream[h]
           /\ stream'[g].subscribers = stream[g].subscribers
           /\ stream'[g].cancelled = stream[g].cancelled
           /\ stream'[g].frame = stream[g].frame
           /\ stream'[g].todo = stream[g].todo \ {ch}
           /\ stream'[g].full = {} /\ stream'[g].select = 1
           /\ stream'[g].pc = IF stream'[g].todo = {} THEN "reading" ELSE "publishing"
    <1> DEFINE left == stream[g].todo \ {ch}
               next == IF left = {} THEN "reading" ELSE "publishing"
    <1>1. stream' = [stream EXCEPT ![g].todo = left, ![g].full = {}, ![g].select = 1,
                                   ![g].pc = next]
        BY DEF ServedTo
    <1>2. next = IF left = {} THEN "reading" ELSE "publishing"
        OBVIOUS
    <1> HIDE DEF left, next
    <1>3. /\ \A h \in StreamIds \ {g} : stream'[h] = stream[h]
          /\ stream'[g].subscribers = stream[g].subscribers
          /\ stream'[g].cancelled = stream[g].cancelled
          /\ stream'[g].frame = stream[g].frame
          /\ stream'[g].todo = left
          /\ stream'[g].full = {} /\ stream'[g].select = 1
          /\ stream'[g].pc = next
        BY <1>1 DEF HubTypeOK, StreamRecords
    <1> QED BY <1>2, <1>3 DEF left

\* The four steps of publish for one channel: a frame stored, a channel found
\* full, the oldest of its frames dropped, and the frame lost.
Stores(g, ch) ==
    /\ HasRoom(ch) /\ SetFrames(ch, Append(Frames(ch), Frame(g))) /\ ServedTo(g, ch)
Finds(g, ch) ==
    /\ stream' = [stream EXCEPT ![g].full = {ch}, ![g].select = 2]
    /\ view' = view
Drops(g, ch) ==
    /\ ch \in stream[g].full /\ SetFrames(ch, WithoutOldest(Frames(ch)))
    /\ stream' = [stream EXCEPT ![g].select = 3]
Loses(g, ch) ==
    /\ stream[g].select = 3 /\ ch \in stream[g].full /\ ~HasRoom(ch)
    /\ view' = view /\ ServedTo(g, ch)

LEMMA PublishSteps ==
    ASSUME NEW g \in StreamIds, Publish(g)
    PROVE  /\ stream[g].pc = "publishing" /\ current' = current /\ samples' = samples
           /\ \E ch \in stream[g].todo :
                Stores(g, ch) \/ Finds(g, ch) \/ Drops(g, ch) \/ Loses(g, ch)
    BY DEF Publish, Offer, FindFull, DropOldest, OfferAgain, Stores, Finds, Drops, Loses

\* What no step of publish changes.
PublishLeaves(g) ==
    /\ \A h \in StreamIds \ {g} : stream'[h] = stream[h]
    /\ stream'[g].subscribers = stream[g].subscribers
    /\ stream'[g].cancelled = stream[g].cancelled
    /\ stream'[g].frame = stream[g].frame
    /\ stream'[g].pc \in {"reading", "publishing"}
    /\ stream'[g].todo \subseteq stream[g].todo
    /\ \A v \in Viewers : OnlyFrames(v)

LEMMA PublishKeeps ==
    ASSUME HubTypeOK, NEW g \in StreamIds, Publish(g)
    PROVE  PublishLeaves(g)
    <1>0. stream[g].pc = "publishing"
        BY PublishSteps
    <1>1. PICK ch \in stream[g].todo :
            Stores(g, ch) \/ Finds(g, ch) \/ Drops(g, ch) \/ Loses(g, ch)
        BY PublishSteps
    <1>2. ch \in Channels /\ Frames(ch) \in Seq(FrameRecords)
        BY StreamFields, ViewFields DEF HubTypeOK, Channels, Frames
    <1>3. CASE Stores(g, ch)
        <2>1. Append(Frames(ch), Frame(g)) \in Seq(FrameRecords)
            BY <1>2, FrameTyped
        <2>2. \A v \in Viewers : OnlyFrames(v)
            BY <1>2, <1>3, <2>1, StoredFields DEF Stores
        <2> QED BY <1>0, <1>3, <2>2, ServedFields DEF Stores, PublishLeaves
    <1>4. CASE Finds(g, ch)
        BY <1>0, <1>4 DEF Finds, HubTypeOK, StreamRecords, PublishLeaves, OnlyFrames
    <1>5. CASE Drops(g, ch)
        <2>1. \A v \in Viewers : OnlyFrames(v)
            BY <1>2, <1>5, OldestTyped, StoredFields DEF Drops
        <2> QED BY <1>0, <1>5, <2>1 DEF Drops, HubTypeOK, StreamRecords, PublishLeaves
    <1>6. CASE Loses(g, ch)
        BY <1>0, <1>6, ServedFields DEF Loses, PublishLeaves, OnlyFrames
    <1> QED BY <1>1, <1>3, <1>4, <1>5, <1>6

(* The viewers' steps that neither subscribe nor unsubscribe.              *)
LEMMA ViewerKeeps ==
    ASSUME HubTypeOK, NEW v \in Viewers,
           Receive(v) \/ Written(v) \/ WriteFails(v) \/ SeeEnd(v) \/ HangUp(v) \/ PingFails(v)
    PROVE  /\ UNCHANGED <<current, stream, samples>>
           /\ \A u \in Viewers \ {v} : view'[u] = view[u]
           /\ view'[v].visit = view[v].visit /\ view'[v].stream = view[v].stream
           /\ view'[v].released = view[v].released /\ view'[v].since = view[v].since
           /\ view'[v].pc # "idle" /\ view[v].pc # "idle"
           /\ ~Receive(v) => /\ view'[v].got = view[v].got
                             /\ view'[v].frames = view[v].frames
    <1>1. view[v] \in ViewRecords
        BY DEF HubTypeOK
    <1> QED
        BY <1>1 DEF Receive, Written, WriteFails, SeeEnd, HangUp, PingFails, GoView,
           HubTypeOK, ViewRecords

LEMMA NextShared ==
    ASSUME ShareInv, [HubNext]_hubVars
    PROVE  ShareInv'
    <1>0. HubTypeOK /\ HubTypeOK'
        BY NextTyped DEF ShareInv
    <1>1. ASSUME NEW g \in StreamIds, StreamWorks(g) \/ Sample(g) \/ Broken(g)
          PROVE  ShareInv'
        <2>1. CASE Open(g)
            BY <1>0, <2>1, ShareKept DEF Open, GoStream, HubTypeOK, StreamRecords
        <2>2. CASE Publish(g)
            <3>1. PublishLeaves(g) /\ stream[g].pc = "publishing" /\ current' = current
                BY <1>0, <2>2, PublishKeeps, PublishSteps
            <3> QED BY <1>0, <3>1, ShareKept DEF PublishLeaves, OnlyFrames
        <2>3. CASE Sample(g)
            <3>1. /\ \A h \in StreamIds \ {g} : stream'[h] = stream[h]
                  /\ stream'[g].subscribers = stream[g].subscribers
                  /\ stream'[g].cancelled = stream[g].cancelled
                  /\ stream'[g].pc \in {"reading", "publishing"}
                  /\ stream[g].pc = "reading"
                  /\ current' = current /\ view' = view
                BY <1>0, <2>3 DEF Sample, HubTypeOK, StreamRecords
            <3> QED BY <1>0, <3>1, ShareKept
        <2>4. CASE End(g)
            BY <1>0, <2>4, EndShared
        <2> QED BY <1>1, <2>1, <2>2, <2>3, <2>4 DEF StreamWorks, Stopped, Broken
    <1>2. ASSUME NEW v \in Viewers,
                 ViewWorks(v) \/ Subscribe(v) \/ HangUp(v) \/ PingFails(v)
          PROVE  ShareInv'
        <2>1. CASE Receive(v) \/ Written(v) \/ WriteFails(v) \/ SeeEnd(v) \/ HangUp(v)
                   \/ PingFails(v)
            BY <1>0, <2>1, ViewerKeeps, ShareKept
        <2>2. CASE Leave(v)
            <3>1. /\ \A u \in Viewers \ {v} : view'[u] = view[u]
                  /\ view'[v].released /\ view'[v].visit = view[v].visit
                  /\ view'[v].pc = "idle"
                BY <1>0, <2>2 DEF Leave, HubTypeOK, Away
            <3> QED BY <1>0, <2>2, <3>1, UnsubscribeShared DEF Leave
        <2>3. CASE ReaderUnsubscribes(v)
            <3>1. /\ \A u \in Viewers \ {v} : view'[u] = view[u]
                  /\ view'[v].released /\ view'[v].visit = view[v].visit
                  /\ view[v].pc # "idle" /\ view'[v].stream = view[v].stream
                BY <1>0, <2>3 DEF ReaderUnsubscribes, HubTypeOK, ViewRecords
            <3> QED BY <1>0, <2>3, <3>1, UnsubscribeShared DEF ReaderUnsubscribes
        <2>4. CASE Subscribe(v)
            BY <1>0, <2>4, SubscribeShared
        <2> QED BY <1>2, <2>1, <2>2, <2>3, <2>4 DEF ViewWorks
    <1>3. CASE UNCHANGED hubVars
        BY <1>0, <1>3, ShareKept DEF hubVars
    <1> QED BY <1>1, <1>2, <1>3 DEF HubNext

LEMMA ShareInvariant == HubSpec => []ShareInv
    <1>1. ShareInv /\ [HubNext]_hubVars => ShareInv'
        BY NextShared
    <1> QED BY InitShared, <1>1, PTL DEF HubSpec

(* Viewers of a container share one stats stream: it is the hub's, its     *)
(* subscribers are exactly the viewers who came and have not left, it is   *)
(* never without one, and a viewer is never tied to another stream unless  *)
(* that one has told him that it is over.                                  *)
THEOREM OneStreamShared == HubSpec => []OneSharedStream
    <1>1. ShareInv => OneSharedStream
        <2> SUFFICES ASSUME ShareInv PROVE OneSharedStream
            OBVIOUS
        <2>0. NoStream \notin StreamIds
            BY HubBoundsAssumption DEF NoStream, StreamIds
        <2>1. ASSUME NEW g \in StreamIds, Live(g)
              PROVE  /\ g = current /\ stream[g].subscribers # {}
                     /\ stream[g].subscribers = {Channel(v) : v \in Held(g)}
            BY <2>0, <2>1 DEF ShareInv, OneLive, SubscribersHeld
        <2>2. ASSUME NEW v \in Viewers, ~view[v].released
              PROVE  Live(view[v].stream) \/ stream[view[v].stream].pc = "over"
            BY <2>2 DEF ShareInv, OneLive, SubscribersHeld
        <2> QED BY <2>1, <2>2 DEF OneSharedStream, Held
    <1> QED BY <1>1, ShareInvariant, PTL

-----------------------------------------------------------------------------
(* Sequences of frames.                                                    *)

\* What FramesInOrder says of the frames of one viewer.
Ordered(s, since) ==
    \A i, j \in DOMAIN s :
        /\ s[i].n > since
        /\ i < j /\ s[i].from = s[j].from => s[i].n < s[j].n

UpTo(s, n) == \A i \in DOMAIN s : s[i].n <= n

\* What s has of stream g is older than n.
OlderOf(s, g, n) == \A i \in DOMAIN s : s[i].from = g => s[i].n < n

\* t is s without some of its elements.
Thinned(s, t) ==
    \E e \in [DOMAIN t -> DOMAIN s] :
        /\ \A i, j \in DOMAIN t : i < j => e[i] < e[j]
        /\ \A i \in DOMAIN t : t[i] = s[e[i]]

LEMMA ThinnedKeeps ==
    ASSUME NEW s \in Seq(FrameRecords), NEW t \in Seq(FrameRecords), Thinned(s, t)
    PROVE  /\ \A since : Ordered(s, since) => Ordered(t, since)
           /\ \A n : UpTo(s, n) => UpTo(t, n)
           /\ \A g, n : OlderOf(s, g, n) => OlderOf(t, g, n)
    <1>1. PICK e \in [DOMAIN t -> DOMAIN s] :
            /\ \A i, j \in DOMAIN t : i < j => e[i] < e[j]
            /\ \A i \in DOMAIN t : t[i] = s[e[i]]
        BY DEF Thinned
    <1>2. ASSUME NEW since, Ordered(s, since) PROVE Ordered(t, since)
        BY <1>1, <1>2 DEF Ordered
    <1>3. ASSUME NEW n, UpTo(s, n) PROVE UpTo(t, n)
        BY <1>1, <1>3 DEF UpTo
    <1>4. ASSUME NEW g, NEW n, OlderOf(s, g, n) PROVE OlderOf(t, g, n)
        BY <1>1, <1>4 DEF OlderOf
    <1> QED BY <1>2, <1>3, <1>4

(* Dropping the oldest queued frame, and taking it for the one shown.      *)
LEMMA DropThins ==
    ASSUME NEW got \in Seq(FrameRecords), NEW frames \in Seq(FrameRecords)
    PROVE  Thinned(got \o frames, got \o WithoutOldest(frames))
    <1> DEFINE s == got \o frames
               t == got \o WithoutOldest(frames)
    <1>1. CASE frames = << >>
        <2>1. s = t /\ s \in Seq(FrameRecords)
            BY <1>1 DEF WithoutOldest
        <2> HIDE DEF s, t
        <2>2. [i \in DOMAIN t |-> i] \in [DOMAIN t -> DOMAIN s]
            BY <2>1
        <2> QED BY <2>1, <2>2 DEF Thinned, s, t
    <1>2. CASE frames # << >>
        <2>1. Tail(frames) \in Seq(FrameRecords) /\ Len(Tail(frames)) = Len(frames) - 1
              /\ \A i \in 1..Len(Tail(frames)) : Tail(frames)[i] = frames[i + 1]
            BY <1>2
        <2>2. t = got \o Tail(frames)
            BY <1>2 DEF WithoutOldest
        <2>3. /\ DOMAIN s = 1..(Len(got) + Len(frames))
              /\ DOMAIN t = 1..(Len(got) + Len(frames) - 1)
              /\ \A i \in DOMAIN s : s[i] = IF i <= Len(got) THEN got[i] ELSE frames[i - Len(got)]
              /\ \A i \in DOMAIN t : t[i] = IF i <= Len(got) THEN got[i]
                                            ELSE Tail(frames)[i - Len(got)]
            BY <2>1, <2>2
        <2>4. Len(got) \in Nat /\ Len(frames) \in Nat
            OBVIOUS
        <2> HIDE DEF s, t
        <2> DEFINE e == [i \in DOMAIN t |-> IF i <= Len(got) THEN i ELSE i + 1]
        <2>5. e \in [DOMAIN t -> DOMAIN s]
            BY <2>3, <2>4
        <2>6. \A i, j \in DOMAIN t : i < j => e[i] < e[j]
            BY <2>3, <2>4
        <2>7. ASSUME NEW i \in DOMAIN t PROVE t[i] = s[e[i]]
            <3>1. CASE i <= Len(got)
                BY <2>3, <2>4, <3>1
            <3>2. CASE i > Len(got)
                <4>1. e[i] = i + 1 /\ i + 1 \in DOMAIN s /\ ~(i + 1 <= Len(got))
                    BY <2>3, <2>4, <3>2
                <4>2. s[i + 1] = frames[i + 1 - Len(got)]
                    BY <2>3, <4>1
                <4>3. i - Len(got) \in 1..Len(Tail(frames))
                    BY <2>1, <2>3, <2>4, <3>2
                <4>4. Tail(frames)[i - Len(got)] = frames[i - Len(got) + 1]
                    BY <2>1, <4>3
                <4>5. i + 1 - Len(got) = i - Len(got) + 1
                    BY <2>3, <2>4
                <4> QED BY <2>3, <2>4, <3>2, <4>1, <4>2, <4>4, <4>5
            <3> QED BY <2>3, <2>4, <3>1, <3>2
        <2> QED BY <2>5, <2>6, <2>7 DEF Thinned, s, t
    <1> QED BY <1>1, <1>2

LEMMA TakeThins ==
    ASSUME NEW got \in Seq(FrameRecords), NEW frames \in Seq(FrameRecords), frames # << >>
    PROVE  /\ <<Head(frames)>> \o Tail(frames) = frames
           /\ Thinned(got \o frames, frames)
           /\ Last(got \o frames) = Last(frames)
    <1> DEFINE s == got \o frames
    <1>1. <<Head(frames)>> \o Tail(frames) = frames
        BY HeadTailProperties
    <1>2. /\ DOMAIN s = 1..(Len(got) + Len(frames)) /\ DOMAIN frames = 1..Len(frames)
          /\ Len(s) = Len(got) + Len(frames)
          /\ \A i \in DOMAIN frames : s[i + Len(got)] = frames[i]
          /\ Len(got) \in Nat /\ Len(frames) \in Nat \ {0}
        OBVIOUS
    <1>3. Last(s) = Last(frames)
        BY <1>2 DEF Last
    <1> HIDE DEF s
    <1> DEFINE e == [i \in DOMAIN frames |-> i + Len(got)]
    <1>4. e \in [DOMAIN frames -> DOMAIN s]
        BY <1>2
    <1>5. \A i, j \in DOMAIN frames : i < j => e[i] < e[j]
        BY <1>2
    <1>6. \A i \in DOMAIN frames : frames[i] = s[e[i]]
        BY <1>2
    <1> QED BY <1>1, <1>3, <1>4, <1>5, <1>6 DEF Thinned, s

(* Storing one more.                                                       *)
LEMMA StoreAppends ==
    ASSUME NEW got \in Seq(FrameRecords), NEW frames \in Seq(FrameRecords),
           NEW f \in FrameRecords
    PROVE  /\ got \o Append(frames, f) = Append(got \o frames, f)
           /\ Last(Append(got \o frames, f)) = f
           /\ Append(got \o frames, f) # << >>
    BY DEF Last

LEMMA AppendKeeps ==
    ASSUME NEW s \in Seq(FrameRecords), NEW f \in FrameRecords
    PROVE  /\ \A since \in Nat : Ordered(s, since) /\ OlderOf(s, f.from, f.n) /\ f.n > since
                                   => Ordered(Append(s, f), since)
           /\ \A n \in Nat : UpTo(s, n) /\ f.n <= n => UpTo(Append(s, f), n)
           /\ \A g, n : OlderOf(s, g, n) /\ f.from # g => OlderOf(Append(s, f), g, n)
    <1>1. /\ DOMAIN Append(s, f) = 1..(Len(s) + 1) /\ DOMAIN s = 1..Len(s)
          /\ \A i \in DOMAIN s : Append(s, f)[i] = s[i]
          /\ Append(s, f)[Len(s) + 1] = f /\ Len(s) \in Nat
        OBVIOUS
    <1> DEFINE t == Append(s, f)
    <1>2. \A i \in DOMAIN t : i \in DOMAIN s \/ i = Len(s) + 1
        BY <1>1
    <1> HIDE DEF t
    <1>3. ASSUME NEW since \in Nat, Ordered(s, since), OlderOf(s, f.from, f.n), f.n > since
          PROVE  Ordered(t, since)
        BY <1>1, <1>2, <1>3 DEF Ordered, OlderOf, t
    <1>4. ASSUME NEW n \in Nat, UpTo(s, n), f.n <= n PROVE UpTo(t, n)
        BY <1>1, <1>2, <1>4 DEF UpTo, t
    <1>5. ASSUME NEW g, NEW n, OlderOf(s, g, n), f.from # g PROVE OlderOf(t, g, n)
        BY <1>1, <1>2, <1>5 DEF OlderOf, t
    <1> QED BY <1>3, <1>4, <1>5 DEF t

LEMMA SeenTyped ==
    ASSUME HubTypeOK, NEW v \in Viewers
    PROVE  Seen(v) \in Seq(FrameRecords)
    BY ViewFields DEF HubTypeOK, Seen

LEMMA FrameNumbers ==
    ASSUME NEW s \in Seq(FrameRecords)
    PROVE  \A i \in DOMAIN s : s[i].n \in Nat
    <1>1. ASSUME NEW i \in DOMAIN s PROVE s[i] \in FrameRecords
        OBVIOUS
    <1> QED BY <1>1 DEF FrameRecords

(* The invariant in these words.                                           *)
LEMMA FrameWords ==
    /\ FramesInOrder <=> \A v \in Viewers : Ordered(Seen(v), view[v].since)
    /\ SeenInOrder <=> \A v \in Viewers : /\ Len(view[v].frames) <= FrameBuffer
                                          /\ view[v].since <= samples
                                          /\ UpTo(Seen(v), samples)
    /\ OwedIsNew <=> \A g \in StreamIds : \A ch \in stream[g].todo : Reading(ch) =>
            /\ stream[g].frame > view[ch.viewer].since
            /\ OlderOf(Seen(ch.viewer), g, stream[g].frame)
    BY DEF FramesInOrder, SeenInOrder, OwedIsNew, Ordered, UpTo, OlderOf

-----------------------------------------------------------------------------
(* The steps that hand nothing out.                                        *)

\* A viewer who is where he was, and one who has gone.
SameView(v) ==
    /\ view'[v].pc = "idle" <=> view[v].pc = "idle"
    /\ view'[v].visit = view[v].visit /\ view'[v].stream = view[v].stream
    /\ view'[v].got = view[v].got /\ view'[v].frames = view[v].frames
    /\ view'[v].since = view[v].since
    /\ view[v].released => view'[v].released
GoneView(v) == view'[v] = [Away EXCEPT !.visit = view[v].visit]

SameStream(g) ==
    /\ stream'[g].todo = stream[g].todo /\ stream'[g].full = stream[g].full
    /\ stream'[g].select = stream[g].select /\ stream'[g].frame = stream[g].frame
    /\ stream'[g].subscribers \subseteq stream[g].subscribers
    /\ stream[g].pc = "publishing" => stream'[g].pc = "publishing"
    /\ Live(g)' => Live(g)

LEMMA ReadingKept ==
    ASSUME NEW ch \in Channels, SameView(ch.viewer) \/ GoneView(ch.viewer)
    PROVE  Reading(ch)' => Reading(ch) /\ SameView(ch.viewer)
    <1>1. Reading(ch)' => ~GoneView(ch.viewer)
        BY DEF Reading, GoneView, Away
    <1> QED BY <1>1 DEF Reading, SameView

LEMMA FramesKept ==
    ASSUME ShareInv, FrameInv, HubTypeOK', samples' = samples,
           \A g \in StreamIds : SameStream(g),
           \A v \in Viewers : SameView(v) \/ GoneView(v)
    PROVE  FrameInv'
    <1>0. HubTypeOK
        BY DEF ShareInv
    <1>v. \A v \in Viewers : GoneView(v) =>
            /\ view'[v].visit = view[v].visit /\ view'[v].released /\ view'[v].since = 0
            /\ view'[v].frames = << >> /\ view'[v].got = << >> /\ view'[v].pc = "idle"
        BY <1>0 DEF GoneView, Away
    <1>c. ASSUME NEW g \in StreamIds
          PROVE  /\ stream[g].todo \subseteq Channels /\ stream[g].full \subseteq Channels
                 /\ stream[g].frame \in Nat
        BY <1>0, StreamFields DEF HubTypeOK
    <1>s. \A v \in Viewers : /\ SameView(v) => Seen(v)' = Seen(v)
                             /\ GoneView(v) => Seen(v)' = << >>
        <2>1. << >> \o << >> = << >>
            OBVIOUS
        <2>2. ASSUME NEW v \in Viewers, GoneView(v) PROVE Seen(v)' = << >>
            BY <1>v, <2>1, <2>2 DEF Seen
        <2> QED BY <2>2 DEF Seen, SameView
    <1>1. KnownChannels'
        <2>1. \A v \in Viewers : view'[v].visit = view[v].visit
            BY <1>v DEF SameView
        <2> SUFFICES ASSUME NEW g \in StreamIds,
                            NEW ch \in stream'[g].todo \cup stream'[g].subscribers
                     PROVE  ch.visit <= view'[ch.viewer].visit
            BY DEF KnownChannels
        <2>2. ch \in stream[g].todo \cup stream[g].subscribers
            BY DEF SameStream
        <2>3. ch.viewer \in Viewers
            BY <1>0, <2>2, StreamFields DEF HubTypeOK, Channels
        <2> QED BY <2>1, <2>2, <2>3 DEF FrameInv, KnownChannels
    <1>2. PublisherShape'
        BY DEF FrameInv, PublisherShape, SameStream
    <1>3. OwedIsNew'
        <2> SUFFICES ASSUME NEW g \in StreamIds, NEW ch \in stream'[g].todo, Reading(ch)'
                     PROVE  /\ stream'[g].frame > view'[ch.viewer].since
                            /\ OlderOf(Seen(ch.viewer)', g, stream'[g].frame)
            BY FrameWords DEF OwedIsNew, OlderOf
        <2>1. ch \in stream[g].todo /\ stream'[g].frame = stream[g].frame
            BY DEF SameStream
        <2>2. ch \in Channels /\ ch.viewer \in Viewers
            BY <1>c, <2>1 DEF Channels
        <2>3. Reading(ch) /\ SameView(ch.viewer)
            BY <2>2, ReadingKept
        <2>4. Seen(ch.viewer)' = Seen(ch.viewer) /\ view'[ch.viewer].since = view[ch.viewer].since
            BY <1>s, <2>2, <2>3 DEF SameView
        <2>5. stream[g].frame > view[ch.viewer].since /\ OlderOf(Seen(ch.viewer), g, stream[g].frame)
            BY <2>1, <2>3, FrameWords DEF FrameInv
        <2> QED BY <2>1, <2>4, <2>5
    <1>4. SeenInOrder'
        <2> SUFFICES ASSUME NEW v \in Viewers
                     PROVE  /\ Len(view'[v].frames) <= FrameBuffer
                            /\ view'[v].since <= samples
                            /\ UpTo(Seen(v)', samples)
            BY DEF SeenInOrder, UpTo
        <2>1. CASE SameView(v)
            BY <1>s, <2>1, FrameWords DEF FrameInv, SameView
        <2>2. CASE GoneView(v)
            BY <1>0, <1>s, <1>v, <2>2, BufferAssumption DEF UpTo, HubTypeOK
        <2> QED BY <2>1, <2>2
    <1>5. FramesInOrder'
        <2> SUFFICES ASSUME NEW v \in Viewers PROVE Ordered(Seen(v)', view'[v].since)
            BY DEF FramesInOrder, Ordered
        <2>1. CASE SameView(v)
            BY <1>s, <2>1, FrameWords DEF FrameInv, SameView
        <2>2. CASE GoneView(v)
            BY <1>s, <2>2 DEF Ordered
        <2> QED BY <2>1, <2>2
    <1>6. RoomMade'
        <2> SUFFICES ASSUME NEW g \in StreamIds, NEW ch \in stream'[g].full,
                            stream'[g].select = 3, Reading(ch)', Undisturbed(ch.viewer, g)'
                     PROVE  Len(Frames(ch)') < FrameBuffer
            BY DEF RoomMade
        <2>1. ch \in stream[g].full /\ stream[g].select = 3
            BY DEF SameStream
        <2>2. ch \in Channels /\ ch.viewer \in Viewers
            BY <1>c, <2>1 DEF Channels
        <2>3. Reading(ch) /\ SameView(ch.viewer)
            BY <2>2, ReadingKept
        <2>4. Undisturbed(ch.viewer, g) /\ Frames(ch)' = Frames(ch)
            BY <2>3 DEF Undisturbed, SameView, SameStream, Frames
        <2> QED BY <2>1, <2>3, <2>4 DEF FrameInv, RoomMade
    <1>7. NewestOwedOrSeen'
        <2> SUFFICES ASSUME NEW v \in Viewers, view'[v].pc # "idle", ~view'[v].released,
                            Live(view[v].stream)',
                            stream'[view'[v].stream].frame > view'[v].since,
                            Undisturbed(v, view[v].stream)'
                     PROVE  \/ Channel(v)' \in stream'[view'[v].stream].todo
                            \/ Seen(v)' # << >> /\ Last(Seen(v)').n = stream'[view'[v].stream].frame
            BY DEF NewestOwedOrSeen
        <2>1. SameView(v)
            BY <1>v
        <2>2. PICK g \in StreamIds : g = view[v].stream
            BY <2>1 DEF ShareInv, SubscribersHeld, SameView
        <2>3. view'[v].stream = g
            BY <2>1, <2>2 DEF SameView
        <2>4. Live(g) /\ Undisturbed(v, g) /\ stream[g].frame > view[v].since
            BY <2>1, <2>2, <2>3 DEF SameView, SameStream, Undisturbed, Live
        <2>5. Channel(v)' = Channel(v) /\ Seen(v)' = Seen(v)
            BY <1>s, <2>1 DEF Channel, SameView
        <2>6. Channel(v) \in stream[g].todo \/ (Seen(v) # << >> /\ Last(Seen(v)).n = stream[g].frame)
            BY <2>1, <2>2, <2>4 DEF FrameInv, NewestOwedOrSeen, SameView
        <2> QED BY <2>3, <2>5, <2>6 DEF SameStream
    <1> QED BY <1>1, <1>2, <1>3, <1>4, <1>5, <1>6, <1>7 DEF FrameInv

-----------------------------------------------------------------------------
(* A viewer takes a frame, or comes.                                       *)
LEMMA ReceiveFrames ==
    ASSUME ShareInv, FrameInv, HubTypeOK', NEW v \in Viewers, Receive(v)
    PROVE  FrameInv'
    <1>0. HubTypeOK
        BY DEF ShareInv
    <1>1. /\ view[v].pc = "watching" /\ view[v].frames # << >>
          /\ view'[v].got = <<Head(view[v].frames)>> /\ view'[v].frames = Tail(view[v].frames)
          /\ view'[v].pc = "writing" /\ view'[v].visit = view[v].visit
          /\ view'[v].stream = view[v].stream /\ view'[v].since = view[v].since
          /\ view'[v].released = view[v].released
          /\ \A u \in Viewers \ {v} : view'[u] = view[u]
          /\ UNCHANGED <<current, stream, samples>>
        <2>1. view[v] \in ViewRecords
            BY <1>0 DEF HubTypeOK
        <2> QED BY <1>0, <2>1 DEF Receive, HubTypeOK, ViewRecords
    <1>2. view[v].got \in Seq(FrameRecords) /\ view[v].frames \in Seq(FrameRecords)
        BY <1>0, ViewFields DEF HubTypeOK
    <1>3. /\ Seen(v)' = view[v].frames /\ Thinned(Seen(v), Seen(v)')
          /\ Last(Seen(v)') = Last(Seen(v))
        BY <1>1, <1>2, TakeThins DEF Seen
    <1>4. \A u \in Viewers \ {v} : Seen(u)' = Seen(u)
        BY <1>1 DEF Seen
    <1>5. /\ \A since : Ordered(Seen(v), since) => Ordered(Seen(v)', since)
          /\ \A n : UpTo(Seen(v), n) => UpTo(Seen(v)', n)
          /\ \A g, n : OlderOf(Seen(v), g, n) => OlderOf(Seen(v)', g, n)
        BY <1>0, <1>2, <1>3, SeenTyped, ThinnedKeeps
    <1>6. \A u \in Viewers : /\ view'[u].visit = view[u].visit /\ view'[u].since = view[u].since
                             /\ view'[u].pc = "idle" <=> view[u].pc = "idle"
                             /\ view'[u].released = view[u].released
                             /\ view'[u].stream = view[u].stream
                             /\ Channel(u)' = Channel(u)
        BY <1>1 DEF Channel
    <1>7. \A u \in Viewers : Len(view'[u].frames) <= Len(view[u].frames)
        <2>1. \A u \in Viewers : Len(view[u].frames) \in Nat
            BY <1>0, ViewFields DEF HubTypeOK
        <2>2. Len(Tail(view[v].frames)) <= Len(view[v].frames)
            BY <1>1, <1>2
        <2>3. ASSUME NEW u \in Viewers PROVE Len(view'[u].frames) <= Len(view[u].frames)
            <3>1. CASE u = v
                BY <1>1, <2>2, <3>1
            <3>2. CASE u # v
                BY <1>1, <2>1, <3>2
            <3> QED BY <3>1, <3>2
        <2> QED BY <2>3
    <1>c. \A g \in StreamIds : \A ch \in stream[g].todo \cup stream[g].subscribers :
             ch.viewer \in Viewers
        BY <1>0, StreamFields DEF HubTypeOK, Channels
    <1>8. KnownChannels' /\ PublisherShape'
        BY <1>1, <1>6, <1>c DEF FrameInv, KnownChannels, PublisherShape
    <1>9. OwedIsNew'
        <2> SUFFICES ASSUME NEW g \in StreamIds, NEW ch \in stream[g].todo, Reading(ch)'
                     PROVE  /\ stream[g].frame > view'[ch.viewer].since
                            /\ OlderOf(Seen(ch.viewer)', g, stream[g].frame)
            BY <1>1 DEF OwedIsNew, OlderOf
        <2>1. Reading(ch)
            BY <1>6, <1>c DEF Reading
        <2>2. stream[g].frame > view[ch.viewer].since /\ OlderOf(Seen(ch.viewer), g, stream[g].frame)
            BY <2>1, FrameWords DEF FrameInv
        <2> QED BY <1>4, <1>5, <1>6, <1>c, <2>2
    <1>10. SeenInOrder'
        <2> SUFFICES ASSUME NEW u \in Viewers
                     PROVE  /\ Len(view'[u].frames) <= FrameBuffer
                            /\ view'[u].since <= samples /\ UpTo(Seen(u)', samples)
            BY <1>1 DEF SeenInOrder, UpTo
        <2>1. Len(view[u].frames) \in Nat /\ Len(view'[u].frames) \in Nat
            BY <1>0, ViewFields DEF HubTypeOK
        <2> QED BY <1>4, <1>5, <1>6, <1>7, <2>1, FrameWords, BufferAssumption DEF FrameInv
    <1>11. FramesInOrder'
        <2> SUFFICES ASSUME NEW u \in Viewers PROVE Ordered(Seen(u)', view'[u].since)
            BY DEF FramesInOrder, Ordered
        <2> QED BY <1>4, <1>5, <1>6, FrameWords DEF FrameInv
    <1>12. RoomMade'
        <2> SUFFICES ASSUME NEW g \in StreamIds, NEW ch \in stream[g].full,
                            stream[g].select = 3, Reading(ch)', Undisturbed(ch.viewer, g)'
                     PROVE  Len(view'[ch.viewer].frames) < FrameBuffer
            BY <1>1 DEF RoomMade, Frames
        <2>1. ch.viewer \in Viewers
            BY <1>c DEF FrameInv, PublisherShape
        <2>2. Reading(ch) /\ Undisturbed(ch.viewer, g)
            BY <1>1, <1>6, <2>1 DEF Reading, Undisturbed
        <2>3. Len(view[ch.viewer].frames) < FrameBuffer
            BY <2>2 DEF FrameInv, RoomMade, Frames
        <2>4. Len(view[ch.viewer].frames) \in Nat /\ Len(view'[ch.viewer].frames) \in Nat
            BY <1>0, <2>1, ViewFields DEF HubTypeOK
        <2> QED BY <1>7, <2>1, <2>3, <2>4, BufferAssumption
    <1>13. NewestOwedOrSeen'
        <2> SUFFICES ASSUME NEW u \in Viewers, view'[u].pc # "idle", ~view'[u].released,
                            Live(view[u].stream)',
                            stream'[view'[u].stream].frame > view'[u].since,
                            Undisturbed(u, view[u].stream)'
                     PROVE  \/ Channel(u)' \in stream'[view'[u].stream].todo
                            \/ Seen(u)' # << >> /\ Last(Seen(u)').n = stream'[view'[u].stream].frame
            BY DEF NewestOwedOrSeen
        <2>1. /\ Live(view[u].stream) /\ Undisturbed(u, view[u].stream)
              /\ stream[view[u].stream].frame > view[u].since
            BY <1>1, <1>6 DEF Live, Undisturbed
        <2>2. \/ Channel(u) \in stream[view[u].stream].todo
              \/ Seen(u) # << >> /\ Last(Seen(u)).n = stream[view[u].stream].frame
            BY <1>6, <2>1 DEF FrameInv, NewestOwedOrSeen
        <2> QED BY <1>1, <1>3, <1>4, <1>6, <2>2
    <1> QED BY <1>8, <1>9, <1>10, <1>11, <1>12, <1>13 DEF FrameInv

LEMMA SubscribeFrames ==
    ASSUME ShareInv, FrameInv, HubTypeOK', NEW v \in Viewers, Subscribe(v)
    PROVE  FrameInv'
    <1> DEFINE channel == [viewer |-> v, visit |-> view[v].visit + 1]
    <1>0. HubTypeOK
        BY DEF ShareInv
    <1>1. PICK g \in StreamIds :
            /\ current' = g
            /\ stream' = [stream EXCEPT ![g].subscribers = @ \cup {channel},
                                        ![g].pc = IF @ = "none" THEN "opening" ELSE @]
            /\ view' = [view EXCEPT ![v] =
                 [Away EXCEPT !.pc = "watching", !.visit = channel.visit, !.stream = g,
                              !.released = FALSE, !.since = samples]]
            /\ samples' = samples
            /\ view[v].pc = "idle"
            /\ IF current = NoStream THEN stream[g].pc = "none" ELSE g = current
        BY DEF Subscribe
    <1>2. /\ view'[v].pc = "watching" /\ view'[v].visit = view[v].visit + 1
          /\ view'[v].stream = g /\ view'[v].since = samples
          /\ view'[v].got = << >> /\ view'[v].frames = << >>
          /\ \A u \in Viewers \ {v} : view'[u] = view[u]
        BY <1>0, <1>1 DEF HubTypeOK, Away
    <1>3. /\ stream'[g].subscribers = stream[g].subscribers \cup {channel}
          /\ stream'[g].pc = IF stream[g].pc = "none" THEN "opening" ELSE stream[g].pc
          /\ stream'[g].cancelled = stream[g].cancelled
          /\ stream'[g].todo = stream[g].todo /\ stream'[g].full = stream[g].full
          /\ stream'[g].frame = stream[g].frame /\ stream'[g].select = stream[g].select
          /\ \A h \in StreamIds \ {g} : stream'[h] = stream[h]
        BY <1>0, <1>1 DEF HubTypeOK, StreamRecords
    <1>4. channel.viewer = v /\ channel.visit = view[v].visit + 1
        OBVIOUS
    <1> HIDE DEF channel
    <1>5. \A h \in StreamIds : /\ stream'[h].todo = stream[h].todo
                               /\ stream'[h].full = stream[h].full
                               /\ stream'[h].frame = stream[h].frame
                               /\ stream'[h].select = stream[h].select
        BY <1>3
    <1>6. /\ \A u \in Viewers \ {v} : Seen(u)' = Seen(u)
          /\ Seen(v)' = << >>
        <2>1. << >> \o << >> = << >>
            OBVIOUS
        <2> QED BY <1>2, <2>1 DEF Seen
    <1>c. \A h \in StreamIds : \A ch \in stream[h].todo \cup stream[h].subscribers :
             ch \in Channels /\ ch.viewer \in Viewers /\ ch.visit \in Nat
        BY <1>0, StreamFields DEF HubTypeOK, Channels
    <1>n. view[v].visit \in Nat /\ samples \in Nat /\ \A h \in StreamIds : stream[h].frame \in Nat
        BY <1>0, StreamFields, ViewFields DEF HubTypeOK
    <1>7. KnownChannels'
        <2> SUFFICES ASSUME NEW h \in StreamIds,
                            NEW ch \in stream'[h].todo \cup stream'[h].subscribers
                     PROVE  ch.visit <= view'[ch.viewer].visit
            BY DEF KnownChannels
        <2>1. CASE ch \in stream[h].todo \cup stream[h].subscribers
            <3>1. ch.visit <= view[ch.viewer].visit /\ ch.viewer \in Viewers /\ ch.visit \in Nat
                BY <1>c, <2>1 DEF FrameInv, KnownChannels
            <3> QED BY <1>2, <1>n, <3>1
        <2>2. CASE ch \notin stream[h].todo \cup stream[h].subscribers
            <3>1. ch = channel
                BY <1>3, <2>2
            <3> QED BY <1>2, <1>4, <1>n, <3>1
        <2> QED BY <2>1, <2>2
    <1>8. PublisherShape'
        <2>1. \A h \in StreamIds : stream[h].pc = "publishing" => stream'[h].pc = "publishing"
            BY <1>3
        <2>2. PublisherShape
            BY DEF FrameInv
        <2> SUFFICES ASSUME NEW h \in StreamIds
                     PROVE  /\ stream'[h].todo # {} => stream'[h].pc = "publishing"
                            /\ stream'[h].full \subseteq stream'[h].todo
                            /\ \A a, b \in stream'[h].full : a = b
                            /\ stream'[h].frame <= samples'
            BY DEF PublisherShape
        <2>3. /\ stream'[h].todo = stream[h].todo /\ stream'[h].full = stream[h].full
              /\ stream'[h].frame = stream[h].frame /\ samples' = samples
            BY <1>1, <1>5
        <2>4. /\ stream[h].todo # {} => stream[h].pc = "publishing"
              /\ stream[h].full \subseteq stream[h].todo
              /\ \A a, b \in stream[h].full : a = b
              /\ stream[h].frame <= samples
            BY <2>2 DEF PublisherShape
        <2> QED BY <2>1, <2>3, <2>4
    <1>9. ASSUME NEW h \in StreamIds, NEW ch \in stream[h].todo, Reading(ch)'
          PROVE  Reading(ch) /\ ch.viewer \in Viewers \ {v}
        <2>1. ch.viewer \in Viewers /\ ch.visit \in Nat /\ ch.visit <= view[ch.viewer].visit
            BY <1>c DEF FrameInv, KnownChannels
        <2>2. CASE ch.viewer = v
            <3>1. ch.visit = view[v].visit + 1
                BY <1>2, <1>9, <2>2 DEF Reading
            <3> QED BY <1>n, <2>1, <2>2, <3>1
        <2>3. CASE ch.viewer # v
            BY <1>2, <1>9, <2>1, <2>3 DEF Reading
        <2> QED BY <2>2, <2>3
    <1>10. OwedIsNew'
        <2> SUFFICES ASSUME NEW h \in StreamIds, NEW ch \in stream[h].todo, Reading(ch)'
                     PROVE  /\ stream[h].frame > view'[ch.viewer].since
                            /\ OlderOf(Seen(ch.viewer)', h, stream[h].frame)
            BY <1>5 DEF OwedIsNew, OlderOf
        <2>1. Reading(ch) /\ ch.viewer \in Viewers \ {v}
            BY <1>9
        <2>2. stream[h].frame > view[ch.viewer].since /\ OlderOf(Seen(ch.viewer), h, stream[h].frame)
            BY <2>1, FrameWords DEF FrameInv
        <2> QED BY <1>2, <1>6, <2>1, <2>2
    <1>11. SeenInOrder'
        <2> SUFFICES ASSUME NEW u \in Viewers
                     PROVE  /\ Len(view'[u].frames) <= FrameBuffer
                            /\ view'[u].since <= samples /\ UpTo(Seen(u)', samples)
            BY <1>1 DEF SeenInOrder, UpTo
        <2>1. CASE u = v
            BY <1>2, <1>6, <1>n, <2>1, BufferAssumption DEF UpTo
        <2>2. CASE u # v
            BY <1>2, <1>6, <2>2, FrameWords DEF FrameInv
        <2> QED BY <2>1, <2>2
    <1>12. FramesInOrder'
        <2> SUFFICES ASSUME NEW u \in Viewers PROVE Ordered(Seen(u)', view'[u].since)
            BY DEF FramesInOrder, Ordered
        <2>1. CASE u = v
            BY <1>6, <2>1 DEF Ordered
        <2>2. CASE u # v
            BY <1>2, <1>6, <2>2, FrameWords DEF FrameInv
        <2> QED BY <2>1, <2>2
    <1>13. RoomMade'
        <2> SUFFICES ASSUME NEW h \in StreamIds, NEW ch \in stream[h].full,
                            stream[h].select = 3, Reading(ch)', Undisturbed(ch.viewer, h)'
                     PROVE  Len(view'[ch.viewer].frames) < FrameBuffer
            BY <1>5 DEF RoomMade, Frames
        <2>1. ch \in stream[h].todo
            BY DEF FrameInv, PublisherShape
        <2>2. Reading(ch) /\ ch.viewer \in Viewers \ {v}
            BY <1>9, <2>1
        <2>3. Undisturbed(ch.viewer, h)
            BY <1>2, <1>5, <2>2 DEF Undisturbed
        <2> QED BY <1>2, <2>2, <2>3 DEF FrameInv, RoomMade, Frames
    <1>14. NewestOwedOrSeen'
        <2> SUFFICES ASSUME NEW u \in Viewers, view'[u].pc # "idle", ~view'[u].released,
                            Live(view[u].stream)',
                            stream'[view'[u].stream].frame > view'[u].since,
                            Undisturbed(u, view[u].stream)'
                     PROVE  \/ Channel(u)' \in stream'[view'[u].stream].todo
                            \/ Seen(u)' # << >> /\ Last(Seen(u)').n = stream'[view'[u].stream].frame
            BY DEF NewestOwedOrSeen
        <2>1. CASE u = v
            <3>1. stream[g].frame <= samples
                BY DEF FrameInv, PublisherShape
            <3> QED BY <1>2, <1>5, <1>n, <2>1, <3>1
        <2>2. CASE u # v
            <3>1. view'[u] = view[u] /\ Seen(u)' = Seen(u) /\ Channel(u)' = Channel(u)
                BY <1>2, <1>6, <2>2 DEF Channel
            <3>2. PICK h \in StreamIds : h = view[u].stream
                BY <3>1 DEF ShareInv, SubscribersHeld
            <3>3. stream[h].pc # "none"
                BY <3>1, <3>2 DEF ShareInv, SubscribersHeld
            <3>4. Live(h)'
                BY <3>1, <3>2 DEF Live
            <3>5. Live(h)
                BY <1>3, <3>3, <3>4 DEF Live
            <3>6. Undisturbed(u, h) /\ stream[h].frame > view[u].since
                BY <1>5, <3>1, <3>2 DEF Undisturbed
            <3>7. \/ Channel(u) \in stream[h].todo
                  \/ Seen(u) # << >> /\ Last(Seen(u)).n = stream[h].frame
                BY <3>1, <3>2, <3>5, <3>6 DEF FrameInv, NewestOwedOrSeen
            <3> QED BY <1>5, <3>1, <3>2, <3>7
        <2> QED BY <2>1, <2>2
    <1> QED BY <1>7, <1>8, <1>10, <1>11, <1>12, <1>13, <1>14 DEF FrameInv

-----------------------------------------------------------------------------
(* A sample comes, and is handed out.                                      *)
LEMMA SampleFrames ==
    ASSUME ShareInv, FrameInv, HubTypeOK', NEW g \in StreamIds, Sample(g)
    PROVE  FrameInv'
    <1>0. HubTypeOK
        BY DEF ShareInv
    <1>1. /\ stream[g].pc = "reading" /\ samples' = samples + 1
          /\ current' = current /\ view' = view
          /\ stream'[g].todo = SubscribersOf(g) /\ stream'[g].frame = samples + 1
          /\ stream'[g].full = stream[g].full /\ stream'[g].select = stream[g].select
          /\ stream'[g].subscribers = stream[g].subscribers
          /\ stream'[g].cancelled = stream[g].cancelled
          /\ stream'[g].pc = IF SubscribersOf(g) = {} THEN "reading" ELSE "publishing"
          /\ \A h \in StreamIds \ {g} : stream'[h] = stream[h]
        BY <1>0 DEF Sample, HubTypeOK, StreamRecords
    <1>2. \A u : Seen(u)' = Seen(u) /\ Channel(u)' = Channel(u) /\ (Reading(u)' <=> Reading(u))
        BY <1>1 DEF Seen, Channel, Reading
    <1>3. stream[g].todo = {} /\ stream[g].full = {}
        BY <1>1 DEF FrameInv, PublisherShape
    <1>n. /\ samples \in Nat
          /\ \A h \in StreamIds : stream[h].frame \in Nat /\ stream[h].frame <= samples
          /\ \A u \in Viewers : view[u].since \in Nat /\ view[u].since <= samples
                                /\ UpTo(Seen(u), samples) /\ Seen(u) \in Seq(FrameRecords)
        BY <1>0, StreamFields, ViewFields, FrameWords, SeenTyped
           DEF HubTypeOK, FrameInv, PublisherShape
    <1>4. \A ch \in SubscribersOf(g) : ch.viewer \in Viewers /\ ch.visit <= view[ch.viewer].visit
        <2>1. \A ch \in SubscribersOf(g) : current \in StreamIds /\ ch \in stream[current].subscribers
            BY <1>0 DEF SubscribersOf, HubTypeOK
        <2> QED BY <1>0, <2>1, StreamFields DEF HubTypeOK, Channels, FrameInv, KnownChannels
    <1>5. KnownChannels'
        <2> SUFFICES ASSUME NEW h \in StreamIds,
                            NEW ch \in stream'[h].todo \cup stream'[h].subscribers
                     PROVE  ch.visit <= view[ch.viewer].visit
            BY <1>1 DEF KnownChannels
        <2> QED BY <1>1, <1>4 DEF FrameInv, KnownChannels
    <1>6. PublisherShape'
        <2> SUFFICES ASSUME NEW h \in StreamIds
                     PROVE  /\ stream'[h].todo # {} => stream'[h].pc = "publishing"
                            /\ stream'[h].full \subseteq stream'[h].todo
                            /\ \A a, b \in stream'[h].full : a = b
                            /\ stream'[h].frame <= samples'
            BY DEF PublisherShape
        <2>1. CASE h = g
            BY <1>1, <1>3, <1>n, <2>1
        <2>2. CASE h # g
            BY <1>1, <1>n, <2>2 DEF FrameInv, PublisherShape
        <2> QED BY <2>1, <2>2
    <1>7. OwedIsNew'
        <2> SUFFICES ASSUME NEW h \in StreamIds, NEW ch \in stream'[h].todo, Reading(ch)
                     PROVE  /\ stream'[h].frame > view[ch.viewer].since
                            /\ OlderOf(Seen(ch.viewer), h, stream'[h].frame)
            BY <1>1, <1>2 DEF OwedIsNew, OlderOf
        <2>1. CASE h = g
            <3>1. ch.viewer \in Viewers /\ stream'[h].frame = samples + 1
                BY <1>1, <1>4, <2>1
            <3>2. \A i \in DOMAIN Seen(ch.viewer) : Seen(ch.viewer)[i].n \in Nat
                BY <1>n, <3>1, FrameNumbers
            <3> QED BY <1>n, <3>1, <3>2 DEF UpTo, OlderOf
        <2>2. CASE h # g
            BY <1>1, <2>2, FrameWords DEF FrameInv
        <2> QED BY <2>1, <2>2
    <1>8. SeenInOrder'
        <2> SUFFICES ASSUME NEW u \in Viewers
                     PROVE  /\ Len(view[u].frames) <= FrameBuffer
                            /\ view[u].since <= samples + 1 /\ UpTo(Seen(u), samples + 1)
            BY <1>1, <1>2 DEF SeenInOrder, UpTo
        <2>1. \A i \in DOMAIN Seen(u) : Seen(u)[i].n \in Nat
            BY <1>n, FrameNumbers
        <2>2. UpTo(Seen(u), samples + 1)
            BY <1>n, <2>1 DEF UpTo
        <2> QED BY <1>n, <2>2, FrameWords DEF FrameInv
    <1>9. FramesInOrder'
        BY <1>1, <1>2 DEF FrameInv, FramesInOrder
    <1>10. RoomMade'
        <2> SUFFICES ASSUME NEW h \in StreamIds, NEW ch \in stream'[h].full,
                            stream'[h].select = 3, Reading(ch), Undisturbed(ch.viewer, h)'
                     PROVE  Len(Frames(ch)) < FrameBuffer
            BY <1>1, <1>2 DEF RoomMade, Frames
        <2>1. h # g /\ ch \in stream[h].full /\ stream[h].select = 3
            BY <1>1, <1>3
        <2>2. ch.viewer \in Viewers
            BY <1>0, <2>1, StreamFields DEF HubTypeOK, Channels
        <2>3. stream'[g].frame <= view[ch.viewer].since
            BY <1>1, <2>1 DEF Undisturbed
        <2> QED BY <1>1, <1>n, <2>2, <2>3
    <1>11. NewestOwedOrSeen'
        <2> SUFFICES ASSUME NEW u \in Viewers, view[u].pc # "idle", ~view[u].released,
                            Live(view[u].stream)', Undisturbed(u, view[u].stream)'
                     PROVE  \/ Channel(u) \in stream'[view[u].stream].todo
                            \/ Seen(u) # << >> /\ Last(Seen(u)).n = stream'[view[u].stream].frame
            BY <1>1, <1>2 DEF NewestOwedOrSeen
        <2>1. PICK h \in StreamIds : h = view[u].stream
            BY DEF ShareInv, SubscribersHeld
        <2>2. CASE h # g
            <3>1. stream'[g].frame <= view[u].since
                BY <1>1, <2>1, <2>2 DEF Undisturbed
            <3> QED BY <1>1, <1>n, <3>1
        <2>3. CASE h = g
            <3>1. Live(h)'
                BY <1>1, <2>1 DEF Live
            <3>2. Live(h)
                BY <1>1, <2>3, <3>1 DEF Live
            <3>3. h = current /\ u \in Held(h)
                BY <2>1, <3>2 DEF ShareInv, OneLive, Held
            <3>4. NoStream \notin StreamIds
                BY HubBoundsAssumption DEF NoStream, StreamIds
            <3>5. Channel(u) \in stream[h].subscribers /\ SubscribersOf(g) = stream[h].subscribers
                BY <2>3, <3>3, <3>4 DEF ShareInv, SubscribersHeld, SubscribersOf
            <3> QED BY <1>1, <2>1, <2>3, <3>5
        <2> QED BY <2>2, <2>3
    <1> QED BY <1>5, <1>6, <1>7, <1>8, <1>9, <1>10, <1>11 DEF FrameInv

(* What a step of publish leaves in order.                                 *)
LEMMA PublishSeen ==
    ASSUME ShareInv, FrameInv, HubTypeOK', NEW g \in StreamIds, Publish(g)
    PROVE  /\ KnownChannels' /\ PublisherShape' /\ OwedIsNew' /\ SeenInOrder' /\ FramesInOrder'
    <1>0. HubTypeOK
        BY DEF ShareInv
    <1>p. stream[g].pc = "publishing" /\ current' = current /\ samples' = samples
        BY PublishSteps
    <1>1. PICK ch \in stream[g].todo :
            Stores(g, ch) \/ Finds(g, ch) \/ Drops(g, ch) \/ Loses(g, ch)
        BY PublishSteps
    <1>2. /\ ch \in Channels /\ ch.viewer \in Viewers
          /\ Frames(ch) \in Seq(FrameRecords) /\ Frames(ch) = view[ch.viewer].frames
          /\ view[ch.viewer].got \in Seq(FrameRecords)
        BY <1>0, StreamFields, ViewFields DEF HubTypeOK, Channels, Frames
    <1>3. PublishLeaves(g)
        BY <1>0, PublishKeeps
    <1>c. \A h \in StreamIds : \A c \in stream[h].todo \cup stream[h].subscribers :
             c.viewer \in Viewers
        BY <1>0, StreamFields DEF HubTypeOK, Channels
    <1>r. \A h \in StreamIds : \A c \in stream[h].todo : Reading(c)' <=> Reading(c)
        BY <1>3, <1>c DEF Reading, PublishLeaves, OnlyFrames
    <1>t. \A h \in StreamIds : /\ stream'[h].todo \subseteq stream[h].todo
                               /\ stream'[h].frame = stream[h].frame
                               /\ stream'[h].subscribers = stream[h].subscribers
        BY <1>3 DEF PublishLeaves
    <1>n. /\ samples \in Nat
          /\ \A h \in StreamIds : stream[h].frame \in Nat
          /\ \A u \in Viewers : view[u].since \in Nat /\ Seen(u) \in Seq(FrameRecords)
        BY <1>0, StreamFields, ViewFields, SeenTyped DEF HubTypeOK
    <1>4. KnownChannels'
        BY <1>3, <1>c, <1>t DEF FrameInv, KnownChannels, PublishLeaves, OnlyFrames
    <1>5. PublisherShape'
        <2> SUFFICES ASSUME NEW h \in StreamIds
                     PROVE  /\ stream'[h].todo # {} => stream'[h].pc = "publishing"
                            /\ stream'[h].full \subseteq stream'[h].todo
                            /\ \A a, b \in stream'[h].full : a = b
                            /\ stream'[h].frame <= samples'
            BY DEF PublisherShape
        <2>1. /\ stream[h].todo # {} => stream[h].pc = "publishing"
              /\ stream[h].full \subseteq stream[h].todo
              /\ \A a, b \in stream[h].full : a = b
              /\ stream[h].frame <= samples
            BY DEF FrameInv, PublisherShape
        <2>2. CASE h # g
            BY <1>3, <1>p, <2>1, <2>2 DEF PublishLeaves
        <2>3. CASE h = g /\ (Stores(g, ch) \/ Loses(g, ch))
            BY <1>0, <1>p, <2>1, <2>3, ServedFields DEF Stores, Loses
        <2>4. CASE h = g /\ Finds(g, ch)
            <3>1. /\ stream'[g].full = {ch} /\ stream'[g].todo = stream[g].todo
                  /\ stream'[g].pc = stream[g].pc /\ stream'[g].frame = stream[g].frame
                BY <1>0, <2>4 DEF Finds, HubTypeOK, StreamRecords
            <3> QED BY <1>p, <2>1, <2>4, <3>1
        <2>5. CASE h = g /\ Drops(g, ch)
            <3>1. /\ stream'[g].full = stream[g].full /\ stream'[g].todo = stream[g].todo
                  /\ stream'[g].pc = stream[g].pc /\ stream'[g].frame = stream[g].frame
                BY <1>0, <2>5 DEF Drops, HubTypeOK, StreamRecords
            <3> QED BY <1>p, <2>1, <2>5, <3>1
        <2> QED BY <1>1, <2>2, <2>3, <2>4, <2>5
    <1>6. CASE view' = view
        <2>1. \A u \in Viewers : Seen(u)' = Seen(u)
            BY <1>6 DEF Seen
        <2>2. OwedIsNew'
            <3> SUFFICES ASSUME NEW h \in StreamIds, NEW c \in stream'[h].todo, Reading(c)'
                         PROVE  /\ stream'[h].frame > view'[c.viewer].since
                                /\ OlderOf(Seen(c.viewer)', h, stream'[h].frame)
                BY DEF OwedIsNew, OlderOf
            <3>1. c \in stream[h].todo /\ Reading(c) /\ c.viewer \in Viewers
                BY <1>c, <1>r, <1>t
            <3> QED BY <1>6, <1>t, <2>1, <3>1, FrameWords DEF FrameInv
        <2>3. SeenInOrder' /\ FramesInOrder'
            BY <1>6, <1>p, <2>1 DEF FrameInv, SeenInOrder, FramesInOrder
        <2> QED BY <1>4, <1>5, <2>2, <2>3
    <1>7. CASE Reading(ch) /\ Stores(g, ch)
        <2> DEFINE v == ch.viewer
                   t == Append(Seen(v), Frame(g))
        <2>1. Frame(g) \in FrameRecords /\ Frame(g).from = g /\ Frame(g).n = stream[g].frame
            BY <1>0, FrameTyped
        <2>2. Append(Frames(ch), Frame(g)) \in Seq(FrameRecords)
            BY <1>2, <2>1
        <2>3. /\ view'[v].frames = Append(Frames(ch), Frame(g))
              /\ \A u \in Viewers \ {v} : view'[u] = view[u]
            BY <1>0, <1>2, <1>7, <2>2, StoredFields DEF Stores
        <2>4. Seen(v)' = t /\ \A u \in Viewers \ {v} : Seen(u)' = Seen(u)
            BY <1>2, <1>3, <2>1, <2>3, StoreAppends DEF Seen, PublishLeaves, OnlyFrames
        <2>5. \A u \in Viewers : view'[u].since = view[u].since
            BY <1>3 DEF PublishLeaves, OnlyFrames
        <2>6. /\ stream[g].frame > view[v].since /\ OlderOf(Seen(v), g, stream[g].frame)
              /\ Ordered(Seen(v), view[v].since) /\ UpTo(Seen(v), samples)
              /\ stream[g].frame <= samples
            BY <1>2, <1>7, FrameWords DEF FrameInv, PublisherShape
        <2>7. /\ Ordered(t, view[v].since) /\ UpTo(t, samples)
              /\ \A h, n : OlderOf(Seen(v), h, n) /\ h # g => OlderOf(t, h, n)
            BY <1>2, <1>n, <2>1, <2>6, AppendKeeps
        <2>8. stream'[g].todo = stream[g].todo \ {ch}
            BY <1>0, <1>7, <1>p, ServedFields DEF Stores
        <2> HIDE DEF t
        <2>9. OwedIsNew'
            <3> SUFFICES ASSUME NEW h \in StreamIds, NEW c \in stream'[h].todo, Reading(c)'
                         PROVE  /\ stream'[h].frame > view'[c.viewer].since
                                /\ OlderOf(Seen(c.viewer)', h, stream'[h].frame)
                BY DEF OwedIsNew, OlderOf
            <3>1. c \in stream[h].todo /\ Reading(c) /\ c.viewer \in Viewers /\ c \in Channels
                BY <1>0, <1>r, <1>t, StreamFields DEF HubTypeOK, Channels
            <3>2. stream[h].frame > view[c.viewer].since /\ OlderOf(Seen(c.viewer), h, stream[h].frame)
                BY <3>1, FrameWords DEF FrameInv
            <3>3. CASE c.viewer # v
                BY <1>t, <2>4, <2>5, <3>1, <3>2, <3>3
            <3>4. CASE c.viewer = v
                <4>1. c = ch
                    BY <1>2, <1>7, <3>1, <3>4 DEF Reading, Channels
                <4>2. h # g
                    BY <2>8, <4>1
                <4> QED BY <1>t, <2>4, <2>5, <2>7, <3>1, <3>2, <3>4, <4>2
            <3> QED BY <3>3, <3>4
        <2>10. SeenInOrder'
            <3>1. Len(view'[v].frames) <= FrameBuffer
                <4>1. Len(Frames(ch)) < FrameBuffer /\ Len(Frames(ch)) \in Nat
                    BY <1>2, <1>7 DEF Stores, HasRoom
                <4>2. Len(Append(Frames(ch), Frame(g))) = Len(Frames(ch)) + 1
                    BY <1>2
                <4> QED BY <2>3, <4>1, <4>2, BufferAssumption
            <3> SUFFICES ASSUME NEW u \in Viewers
                         PROVE  /\ Len(view'[u].frames) <= FrameBuffer
                                /\ view'[u].since <= samples /\ UpTo(Seen(u)', samples)
                BY <1>p DEF SeenInOrder, UpTo
            <3>2. CASE u = v
                BY <2>4, <2>5, <2>7, <3>1, <3>2, FrameWords DEF FrameInv
            <3>3. CASE u # v
                BY <2>3, <2>4, <3>3, FrameWords DEF FrameInv
            <3> QED BY <3>2, <3>3
        <2>11. FramesInOrder'
            <3> SUFFICES ASSUME NEW u \in Viewers PROVE Ordered(Seen(u)', view'[u].since)
                BY DEF FramesInOrder, Ordered
            <3>1. CASE u = v
                BY <2>4, <2>5, <2>7, <3>1
            <3>2. CASE u # v
                BY <2>4, <2>5, <3>2, FrameWords DEF FrameInv
            <3> QED BY <3>1, <3>2
        <2> QED BY <1>4, <1>5, <2>9, <2>10, <2>11
    <1>8. CASE Reading(ch) /\ Drops(g, ch)
        <2> DEFINE v == ch.viewer
        <2>1. WithoutOldest(Frames(ch)) \in Seq(FrameRecords)
            BY <1>2, OldestTyped
        <2>2. /\ view'[v].frames = WithoutOldest(Frames(ch))
              /\ \A u \in Viewers \ {v} : view'[u] = view[u]
            BY <1>0, <1>2, <1>8, <2>1, StoredFields DEF Drops
        <2>3. Seen(v)' = view[v].got \o WithoutOldest(Frames(ch))
              /\ \A u \in Viewers \ {v} : Seen(u)' = Seen(u)
            BY <1>2, <1>3, <2>2 DEF Seen, PublishLeaves, OnlyFrames
        <2>4. \A u \in Viewers : view'[u].since = view[u].since
            BY <1>3 DEF PublishLeaves, OnlyFrames
        <2>5. Thinned(Seen(v), Seen(v)')
            BY <1>2, <2>3, DropThins DEF Seen
        <2>6. Seen(v)' \in Seq(FrameRecords) /\ Seen(v) \in Seq(FrameRecords)
            BY <1>2, <1>n, <2>1, <2>3
        <2>7. /\ \A since : Ordered(Seen(v), since) => Ordered(Seen(v)', since)
              /\ \A n : UpTo(Seen(v), n) => UpTo(Seen(v)', n)
              /\ \A h, n : OlderOf(Seen(v), h, n) => OlderOf(Seen(v)', h, n)
            BY <2>5, <2>6, ThinnedKeeps
        <2>8. OwedIsNew'
            <3> SUFFICES ASSUME NEW h \in StreamIds, NEW c \in stream'[h].todo, Reading(c)'
                         PROVE  /\ stream'[h].frame > view'[c.viewer].since
                                /\ OlderOf(Seen(c.viewer)', h, stream'[h].frame)
                BY DEF OwedIsNew, OlderOf
            <3>1. c \in stream[h].todo /\ Reading(c) /\ c.viewer \in Viewers
                BY <1>c, <1>r, <1>t
            <3>2. stream[h].frame > view[c.viewer].since /\ OlderOf(Seen(c.viewer), h, stream[h].frame)
                BY <3>1, FrameWords DEF FrameInv
            <3>3. CASE c.viewer # v
                BY <1>t, <2>3, <2>4, <3>1, <3>2, <3>3
            <3>4. CASE c.viewer = v
                BY <1>t, <2>4, <2>7, <3>1, <3>2, <3>4
            <3> QED BY <3>3, <3>4
        <2>9. SeenInOrder'
            <3>1. Len(view'[v].frames) <= FrameBuffer
                <4>1. Len(Frames(ch)) <= FrameBuffer /\ Len(Frames(ch)) \in Nat
                    BY <1>2, FrameWords DEF FrameInv
                <4>2. Len(WithoutOldest(Frames(ch))) <= Len(Frames(ch))
                      /\ Len(WithoutOldest(Frames(ch))) \in Nat
                    BY <1>2 DEF WithoutOldest
                <4> QED BY <2>2, <4>1, <4>2, BufferAssumption
            <3> SUFFICES ASSUME NEW u \in Viewers
                         PROVE  /\ Len(view'[u].frames) <= FrameBuffer
                                /\ view'[u].since <= samples /\ UpTo(Seen(u)', samples)
                BY <1>p DEF SeenInOrder, UpTo
            <3>2. CASE u = v
                BY <2>4, <2>7, <3>1, <3>2, FrameWords DEF FrameInv
            <3>3. CASE u # v
                BY <2>2, <2>3, <3>3, FrameWords DEF FrameInv
            <3> QED BY <3>2, <3>3
        <2>10. FramesInOrder'
            <3> SUFFICES ASSUME NEW u \in Viewers PROVE Ordered(Seen(u)', view'[u].since)
                BY DEF FramesInOrder, Ordered
            <3>1. CASE u = v
                BY <2>4, <2>7, <3>1, FrameWords DEF FrameInv
            <3>2. CASE u # v
                BY <2>3, <2>4, <3>2, FrameWords DEF FrameInv
            <3> QED BY <3>1, <3>2
        <2> QED BY <1>4, <1>5, <2>8, <2>9, <2>10
    <1>9. CASE Finds(g, ch) \/ Loses(g, ch)
        BY <1>6, <1>9 DEF Finds, Loses
    <1>10. CASE ~Reading(ch)
        BY <1>1, <1>6, <1>10 DEF Stores, Drops, Finds, Loses, SetFrames
    <1> QED BY <1>1, <1>7, <1>8, <1>9, <1>10

(* Nobody else owes anything to a viewer whom no older stream disturbs.    *)
LEMMA NobodyElse ==
    ASSUME HubTypeOK, FrameInv, NEW g \in StreamIds, NEW h \in StreamIds \ {g},
           NEW ch \in stream[h].todo, Reading(ch)
    PROVE  ~Undisturbed(ch.viewer, g)
    <1>1. ch.viewer \in Viewers
        BY StreamFields DEF HubTypeOK, Channels
    <1>2. stream[h].frame > view[ch.viewer].since
        BY DEF FrameInv, OwedIsNew
    <1>3. stream[h].frame \in Nat /\ view[ch.viewer].since \in Nat
        BY <1>1, StreamFields, ViewFields DEF HubTypeOK
    <1> QED BY <1>2, <1>3 DEF Undisturbed

(* The room made by dropping the oldest frame lasts, and so what is stored *)
(* next to last is the newest.                                             *)
LEMMA PublishNewest ==
    ASSUME ShareInv, FrameInv, HubTypeOK', NEW g \in StreamIds, Publish(g)
    PROVE  RoomMade' /\ NewestOwedOrSeen'
    <1>0. HubTypeOK
        BY DEF ShareInv
    <1>p. stream[g].pc = "publishing" /\ current' = current /\ samples' = samples
        BY PublishSteps
    <1>1. PICK ch \in stream[g].todo :
            Stores(g, ch) \/ Finds(g, ch) \/ Drops(g, ch) \/ Loses(g, ch)
        BY PublishSteps
    <1>2. /\ ch \in Channels /\ ch.viewer \in Viewers
          /\ Frames(ch) \in Seq(FrameRecords) /\ Frames(ch) = view[ch.viewer].frames
          /\ view[ch.viewer].got \in Seq(FrameRecords)
        BY <1>0, StreamFields, ViewFields DEF HubTypeOK, Channels, Frames
    <1>3. PublishLeaves(g)
        BY <1>0, PublishKeeps
    <1>u. \A v \in Viewers, h \in StreamIds : Undisturbed(v, h)' => Undisturbed(v, h)
        BY <1>3 DEF PublishLeaves, OnlyFrames, Undisturbed
    <1>f. Append(Frames(ch), Frame(g)) \in Seq(FrameRecords)
          /\ WithoutOldest(Frames(ch)) \in Seq(FrameRecords)
        BY <1>0, <1>2, FrameTyped, OldestTyped
    <1>v. \A u \in Viewers : ~(Reading(ch) /\ u = ch.viewer) => view'[u] = view[u]
        BY <1>0, <1>1, <1>2, <1>f, StoredFields DEF Stores, Finds, Drops, Loses
    <1>4. RoomMade'
        <2> SUFFICES ASSUME NEW h \in StreamIds, NEW c \in stream'[h].full,
                            stream'[h].select = 3, Reading(c)', Undisturbed(c.viewer, h)'
                     PROVE  Len(view'[c.viewer].frames) < FrameBuffer
            BY DEF RoomMade, Frames
        <2>1. CASE h # g
            <3>1. c \in stream[h].full /\ stream[h].select = 3
                BY <1>3, <2>1 DEF PublishLeaves
            <3>2. c \in Channels /\ c.viewer \in Viewers
                BY <1>0, <3>1, StreamFields DEF HubTypeOK, Channels
            <3>3. Reading(c) /\ Undisturbed(c.viewer, h)
                BY <1>3, <1>u, <3>2 DEF Reading, PublishLeaves, OnlyFrames
            <3>4. ~(Reading(ch) /\ c.viewer = ch.viewer)
                BY <1>0, <2>1, <3>3, NobodyElse
            <3> QED BY <1>v, <3>1, <3>2, <3>3, <3>4 DEF FrameInv, RoomMade, Frames
        <2>2. CASE h = g /\ (Stores(g, ch) \/ Loses(g, ch))
            BY <1>0, <1>p, <2>2, ServedFields DEF Stores, Loses
        <2>3. CASE h = g /\ Finds(g, ch)
            <3>1. stream'[g].select = 2
                BY <1>0, <2>3 DEF Finds, HubTypeOK, StreamRecords
            <3> QED BY <2>3, <3>1
        <2>4. CASE h = g /\ Drops(g, ch)
            <3>1. stream'[g].full = stream[g].full
                BY <1>0, <2>4 DEF Drops, HubTypeOK, StreamRecords
            <3>2. c = ch
                BY <2>4, <3>1 DEF Drops, FrameInv, PublisherShape
            <3>3. Reading(ch)
                BY <1>2, <1>3, <3>2 DEF Reading, PublishLeaves, OnlyFrames
            <3>4. view'[ch.viewer].frames = WithoutOldest(Frames(ch))
                BY <1>0, <1>2, <1>f, <2>4, <3>3, StoredFields DEF Drops
            <3>5. Len(Frames(ch)) <= FrameBuffer /\ Len(Frames(ch)) \in Nat
                BY <1>2 DEF FrameInv, SeenInOrder
            <3>6. Len(WithoutOldest(Frames(ch))) < FrameBuffer
                BY <1>2, <3>5, BufferAssumption DEF WithoutOldest
            <3> QED BY <3>2, <3>4, <3>6
        <2> QED BY <1>1, <2>1, <2>2, <2>3, <2>4
    <1>5. NewestOwedOrSeen'
        <2> SUFFICES ASSUME NEW v \in Viewers, view'[v].pc # "idle", ~view'[v].released,
                            Live(view[v].stream)',
                            stream'[view'[v].stream].frame > view'[v].since,
                            Undisturbed(v, view[v].stream)'
                     PROVE  \/ Channel(v)' \in stream'[view'[v].stream].todo
                            \/ Seen(v)' # << >> /\ Last(Seen(v)').n = stream'[view'[v].stream].frame
            BY DEF NewestOwedOrSeen
        <2>1. OnlyFrames(v)
            BY <1>3 DEF PublishLeaves
        <2>2. PICK h \in StreamIds : h = view[v].stream
            BY <2>1 DEF ShareInv, SubscribersHeld, OnlyFrames
        <2>3. /\ view'[v].stream = h /\ Undisturbed(v, h) /\ Channel(v)' = Channel(v)
              /\ stream'[h].frame = stream[h].frame /\ stream[h].frame > view[v].since
            BY <1>3, <1>u, <2>1, <2>2 DEF OnlyFrames, PublishLeaves, Channel, Undisturbed
        <2>4. Live(h)'
            BY <2>2, <2>3 DEF Live
        <2>5. Live(h)
            BY <1>3, <1>p, <2>4 DEF Live, PublishLeaves
        <2>6. \/ Channel(v) \in stream[h].todo
              \/ Seen(v) # << >> /\ Last(Seen(v)).n = stream[h].frame
            BY <2>1, <2>2, <2>3, <2>5 DEF FrameInv, NewestOwedOrSeen, OnlyFrames
        <2>7. Reading(Channel(v))
            BY <1>0, <2>1, ChannelTyped DEF Reading, OnlyFrames
        <2>8. CASE ~(Reading(ch) /\ v = ch.viewer)
            <3>1. view'[v] = view[v] /\ Seen(v)' = Seen(v)
                BY <1>v, <2>8 DEF Seen
            <3>2. Channel(v) # ch
                BY <1>0, <2>7, <2>8, ChannelTyped
            <3>3. Channel(v) \in stream[h].todo => Channel(v) \in stream'[h].todo
                <4>1. CASE h # g
                    BY <1>3, <4>1 DEF PublishLeaves
                <4>2. CASE Stores(g, ch) \/ Loses(g, ch)
                    BY <1>0, <1>p, <3>2, <4>1, <4>2, ServedFields DEF Stores, Loses
                <4>3. CASE Finds(g, ch) \/ Drops(g, ch)
                    BY <1>0, <4>3 DEF Finds, Drops, HubTypeOK, StreamRecords
                <4> QED BY <1>1, <4>2, <4>3
            <3> QED BY <2>3, <2>6, <3>1, <3>3
        <2>9. CASE Reading(ch) /\ v = ch.viewer
            <3>1. h = g
                BY <1>0, <2>3, <2>9, NobodyElse
            <3>2. Channel(v) = ch
                BY <1>2, <2>9 DEF Channel, Channels, Reading
            <3>3. CASE Finds(g, ch) \/ Drops(g, ch)
                <4>1. stream'[g].todo = stream[g].todo
                    BY <1>0, <3>3 DEF Finds, Drops, HubTypeOK, StreamRecords
                <4> QED BY <2>3, <3>1, <3>2, <4>1
            <3>4. CASE Stores(g, ch)
                <4>1. view'[v].frames = Append(Frames(ch), Frame(g))
                    BY <1>0, <1>2, <1>f, <2>9, <3>4, StoredFields DEF Stores
                <4>2. Seen(v)' = view[v].got \o Append(view[v].frames, Frame(g))
                    BY <1>2, <2>1, <2>9, <4>1 DEF Seen, OnlyFrames
                <4>3. Frame(g) \in FrameRecords /\ Frame(g).n = stream[g].frame
                    BY <1>0, FrameTyped
                <4>4. Seen(v)' # << >> /\ Last(Seen(v)') = Frame(g)
                    <5>1. view[v].got \in Seq(FrameRecords) /\ view[v].frames \in Seq(FrameRecords)
                        BY <1>2, <2>9
                    <5>2. Seen(v)' = Append(view[v].got \o view[v].frames, Frame(g))
                        BY <4>2, <4>3, <5>1, StoreAppends
                    <5>3. /\ Append(view[v].got \o view[v].frames, Frame(g)) # << >>
                          /\ Last(Append(view[v].got \o view[v].frames, Frame(g))) = Frame(g)
                        BY <4>3, <5>1, StoreAppends
                    <5> QED BY <5>2, <5>3
                <4> QED BY <2>3, <3>1, <4>3, <4>4
            <3>5. CASE Loses(g, ch)
                <4>1. Len(Frames(ch)) < FrameBuffer
                    BY <2>3, <2>9, <3>1, <3>5 DEF Loses, FrameInv, RoomMade
                <4> QED BY <3>5, <4>1 DEF Loses, HasRoom
            <3> QED BY <1>1, <3>3, <3>4, <3>5
        <2> QED BY <2>8, <2>9
    <1> QED BY <1>4, <1>5

LEMMA InitFrames == HubInit => FrameInv
    <1> SUFFICES ASSUME HubInit PROVE FrameInv
        OBVIOUS
    <1>1. \A v \in Viewers : /\ view[v] = Away /\ Seen(v) = << >>
        BY DEF HubInit, Seen, Away
    <1>2. \A g \in StreamIds : stream[g] = Unstarted
        BY DEF HubInit
    <1>3. KnownChannels /\ OwedIsNew /\ RoomMade
        BY <1>2 DEF KnownChannels, OwedIsNew, RoomMade, Unstarted
    <1>4. PublisherShape
        BY <1>2 DEF PublisherShape, Unstarted, HubInit
    <1>5. SeenInOrder /\ FramesInOrder
        BY <1>1, BufferAssumption DEF SeenInOrder, FramesInOrder, Away, HubInit
    <1>6. NewestOwedOrSeen
        BY <1>1 DEF NewestOwedOrSeen, Away
    <1> QED BY <1>3, <1>4, <1>5, <1>6 DEF FrameInv

LEMMA NextFrames ==
    ASSUME ShareInv, FrameInv, [HubNext]_hubVars
    PROVE  FrameInv'
    <1>0. HubTypeOK /\ HubTypeOK'
        BY NextTyped DEF ShareInv
    <1>s. \A v \in Viewers : view'[v] = view[v] => SameView(v)
        BY DEF SameView
    <1>1. ASSUME NEW g \in StreamIds, StreamWorks(g) \/ Sample(g) \/ Broken(g)
          PROVE  FrameInv'
        <2>1. CASE Open(g) \/ End(g)
            <3>1. /\ view' = view /\ samples' = samples
                  /\ \A h \in StreamIds \ {g} : stream'[h] = stream[h]
                  /\ stream'[g].todo = stream[g].todo /\ stream'[g].full = stream[g].full
                  /\ stream'[g].select = stream[g].select /\ stream'[g].frame = stream[g].frame
                  /\ stream'[g].subscribers = stream[g].subscribers
                  /\ stream[g].pc \in {"opening", "reading"}
                  /\ stream'[g].cancelled = stream[g].cancelled \/ stream'[g].pc = "over"
                BY <1>0, <2>1 DEF Open, GoStream, End, HubTypeOK, StreamRecords
            <3>2. Live(g)' => Live(g)
                BY <3>1 DEF Live
            <3>3. \A h \in StreamIds : SameStream(h)
                BY <3>1, <3>2 DEF SameStream, Live
            <3> QED BY <1>0, <1>s, <3>1, <3>3, FramesKept
        <2>2. CASE Publish(g)
            BY <1>0, <2>2, PublishSeen, PublishNewest DEF FrameInv
        <2>3. CASE Sample(g)
            BY <1>0, <2>3, SampleFrames
        <2> QED BY <1>1, <2>1, <2>2, <2>3 DEF StreamWorks, Stopped, Broken
    <1>2. ASSUME NEW v \in Viewers,
                 ViewWorks(v) \/ Subscribe(v) \/ HangUp(v) \/ PingFails(v)
          PROVE  FrameInv'
        <2>1. CASE Receive(v)
            BY <1>0, <2>1, ReceiveFrames
        <2>2. CASE Written(v) \/ WriteFails(v) \/ SeeEnd(v) \/ HangUp(v) \/ PingFails(v)
            <3>2. CASE ~Receive(v)
                <4>1. \A u \in Viewers : SameView(u)
                    BY <1>0, <1>s, <2>2, <3>2, ViewerKeeps DEF SameView
                <4>2. UNCHANGED <<stream, samples>>
                    BY <1>0, <2>2, ViewerKeeps
                <4>3. \A h \in StreamIds : SameStream(h)
                    BY <4>2 DEF SameStream, Live
                <4> QED BY <1>0, <4>1, <4>2, <4>3, FramesKept
            <3>3. CASE Receive(v)
                BY <2>1, <3>3
            <3> QED BY <3>2, <3>3
        <2>3. CASE Leave(v) \/ ReaderUnsubscribes(v)
            <3>1. /\ samples' = samples
                  /\ \A u \in Viewers \ {v} : view'[u] = view[u]
                  /\ SameView(v) \/ GoneView(v)
                BY <1>0, <2>3 DEF Leave, ReaderUnsubscribes, HubTypeOK, ViewRecords,
                   SameView, GoneView
            <3>2. \A h \in StreamIds : SameStream(h)
                <4>1. Unsubscribed(v)
                    BY <2>3 DEF Leave, ReaderUnsubscribes
                <4>2. CASE stream' = stream
                    BY <4>2 DEF SameStream, Live
                <4>3. CASE stream' # stream
                    <5>1. PICK g \in StreamIds : g = view[v].stream
                        BY <4>1, <4>3 DEF Unsubscribed, ShareInv, SubscribersHeld
                    <5>2. stream' = [stream EXCEPT
                             ![g].subscribers = stream[g].subscribers \ {Channel(v)},
                             ![g].cancelled = @ \/ Emptied(g, stream[g].subscribers \ {Channel(v)})]
                        BY <4>1, <4>3, <5>1 DEF Unsubscribed
                    <5>3. /\ \A h \in StreamIds \ {g} : stream'[h] = stream[h]
                          /\ stream'[g].todo = stream[g].todo /\ stream'[g].full = stream[g].full
                          /\ stream'[g].select = stream[g].select
                          /\ stream'[g].frame = stream[g].frame
                          /\ stream'[g].subscribers \subseteq stream[g].subscribers
                          /\ stream'[g].pc = stream[g].pc
                          /\ stream[g].cancelled => stream'[g].cancelled
                        BY <1>0, <5>2 DEF HubTypeOK, StreamRecords
                    <5> QED BY <5>3 DEF SameStream, Live
                <4> QED BY <4>2, <4>3
            <3> QED BY <1>0, <1>s, <3>1, <3>2, FramesKept
        <2>4. CASE Subscribe(v)
            BY <1>0, <2>4, SubscribeFrames
        <2> QED BY <1>2, <2>1, <2>2, <2>3, <2>4 DEF ViewWorks
    <1>3. CASE UNCHANGED hubVars
        <2>1. \A h \in StreamIds : SameStream(h)
            BY <1>3 DEF hubVars, SameStream, Live
        <2> QED BY <1>0, <1>3, <1>s, <2>1, FramesKept DEF hubVars
    <1> QED BY <1>1, <1>2, <1>3 DEF HubNext

(* What a viewer is shown of a stream is in order, each frame once and     *)
(* none from before he came, and between two samples the newest is the     *)
(* last he has got or will get, however slow he is, as long as no older    *)
(* stream is still handing out a frame.                                    *)
THEOREM ViewersUpToDate == HubSpec => []ViewersCurrent
    <1>1. HubInit => ShareInv /\ FrameInv
        BY InitShared, InitFrames
    <1>2. ShareInv /\ FrameInv /\ [HubNext]_hubVars => (ShareInv /\ FrameInv)'
        BY NextShared, NextFrames
    <1>3. ShareInv /\ FrameInv => ViewersCurrent
        <2> SUFFICES ASSUME ShareInv, FrameInv PROVE NewestKept
            BY DEF ViewersCurrent, FrameInv
        <2> SUFFICES ASSUME NEW v \in Viewers, view[v].pc \in {"watching", "writing"},
                            ~view[v].released, Live(view[v].stream),
                            stream[view[v].stream].pc = "reading",
                            stream[view[v].stream].frame > view[v].since,
                            Undisturbed(v, view[v].stream)
                     PROVE  /\ Seen(v) # << >>
                            /\ Last(Seen(v)).n = stream[view[v].stream].frame
            BY DEF NewestKept, Undisturbed
        <2>1. view[v].stream \in StreamIds
            BY DEF ShareInv, SubscribersHeld
        <2>2. stream[view[v].stream].todo = {}
            BY <2>1 DEF FrameInv, PublisherShape
        <2> QED BY <2>2 DEF FrameInv, NewestOwedOrSeen
    <1> QED BY <1>1, <1>2, <1>3, PTL DEF HubSpec
=============================================================================
