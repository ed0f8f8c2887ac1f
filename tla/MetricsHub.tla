----------------------------- MODULE MetricsHub ------------------------------
(***************************************************************************)
(* The metrics hub of ws/metrics_stream.go for one container: viewers that *)
(* open the metrics page share one Docker stats stream, started by the     *)
(* first and cancelled by the last.  A stream is a goroutine of its own,   *)
(* and so a stream that was cancelled may still be publishing when its     *)
(* successor has started.                                                  *)
(***************************************************************************)
EXTENDS Naturals, FiniteSets, Sequences, SequencesExt

CONSTANTS
    Viewers,        \* the connections' clients
    FrameBuffer,    \* the capacity of a subscriber's channel (8)
    MaxStreams,     \* bounds the streams ever started
    MaxVisits,      \* bounds the times each viewer connects
    MaxSamples      \* bounds the samples Docker sends

ASSUME BufferAssumption == FrameBuffer \in Nat \ {0}
ASSUME HubBoundsAssumption == MaxStreams \in Nat /\ MaxVisits \in Nat /\ MaxSamples \in Nat

VARIABLES
    current,        \* h.streams[containerID]: a stream, or NoStream
    stream,         \* the streams' goroutines and subscribers
    view,           \* the handlers (Serve) with their channels
    samples         \* the number of the latest sample

hubVars == <<current, stream, view, samples>>

StreamIds == 1..MaxStreams
NoStream == 0

\* pc: "none", "opening" (the two Docker calls before the loop), "reading",
\* "publishing", "over" (done is closed).  A subscriber is a channel, that is
\* one visit of one viewer.  `todo` are publish's channels still to be served,
\* `full` says that the first select found the present one full.
Unstarted == [pc |-> "none", cancelled |-> FALSE, subscribers |-> {},
              todo |-> {}, full |-> {}, select |-> 1, frame |-> 0]

\* pc: "idle", "watching" (the select loop), "writing" (WriteJSON), "leaving"
\* (the deferred calls).  `gone` says the client hung up, `released` that
\* unsubscribe has run, `done` that streamCtx is.
Away == [pc |-> "idle", visit |-> 0, stream |-> NoStream, frames |-> << >>,
         got |-> << >>, gone |-> FALSE, released |-> TRUE, done |-> FALSE, since |-> 0]

HubInit ==
    /\ current = NoStream
    /\ stream = [g \in StreamIds |-> Unstarted]
    /\ view = [v \in Viewers |-> Away]
    /\ samples = 0

Channel(v) == [viewer |-> v, visit |-> view[v].visit]

\* Subscribe, under the mutex: the hub's stream or a new one.
Subscribe(v) ==
    /\ view[v].pc = "idle" /\ view[v].released /\ view[v].visit < MaxVisits
    /\ LET channel == [viewer |-> v, visit |-> view[v].visit + 1] IN
       \E g \in StreamIds :
         /\ IF current = NoStream
            THEN stream[g].pc = "none" /\ \A h \in StreamIds : h < g => stream[h].pc # "none"
            ELSE g = current
         /\ current' = g
         /\ stream' = [stream EXCEPT ![g].subscribers = @ \cup {channel},
                                     ![g].pc = IF @ = "none" THEN "opening" ELSE @]
         /\ view' = [view EXCEPT ![v] =
               [Away EXCEPT !.pc = "watching", !.visit = channel.visit, !.stream = g,
                            !.released = FALSE, !.since = samples]]
    /\ UNCHANGED samples

EmptiedByOne(g, left) == left # stream[g].subscribers

\* The last subscriber has left.
Emptied(g, left) == left = {}

\* unsubscribe, at most once per visit (sync.Once), under the mutex; a stream
\* that has been replaced or has ended is left alone.
Unsubscribed(v) ==
    LET g == view[v].stream
        left == stream[g].subscribers \ {Channel(v)}
    IN IF view[v].released \/ current # g
       THEN UNCHANGED <<current, stream>>
       ELSE /\ stream' = [stream EXCEPT ![g].subscribers = left,
                                        ![g].cancelled = @ \/ Emptied(g, left)]
            /\ current' = IF Emptied(g, left) THEN NoStream ELSE current

-----------------------------------------------------------------------------
(* run and publish, the goroutine of stream g.                             *)

GoStream(g, pc) == stream' = [stream EXCEPT ![g].pc = pc]

Open(g) == stream[g].pc = "opening" /\ GoStream(g, "reading")
           /\ UNCHANGED <<current, view, samples>>

SubscribersOf(g) == IF current = NoStream THEN {} ELSE stream[current].subscribers

\* Decode returns a sample, and publish copies the subscribers of whatever
\* stream the hub has for this container now.
Sample(g) ==
    /\ stream[g].pc = "reading" /\ samples < MaxSamples
    /\ samples' = samples + 1
    /\ stream' = [stream EXCEPT ![g].todo = SubscribersOf(g), ![g].frame = samples',
                                ![g].pc = IF SubscribersOf(g) = {} THEN @ ELSE "publishing"]
    /\ UNCHANGED <<current, view>>

\* The frames of a visit that is over are in a channel nobody reads.
Reading(channel) ==
    view[channel.viewer].visit = channel.visit /\ view[channel.viewer].pc # "idle"
Frames(channel) == view[channel.viewer].frames
HasRoom(channel) == Reading(channel) => Len(Frames(channel)) < FrameBuffer
SetFrames(channel, frames) ==
    view' = IF Reading(channel)
            THEN [view EXCEPT ![channel.viewer].frames = frames]
            ELSE view

Frame(g) == [from |-> g, n |-> stream[g].frame]

\* On to the next channel; the order of the copied list is any.
ServedTo(g, channel) ==
    LET left == stream[g].todo \ {channel} IN
    stream' = [stream EXCEPT ![g].todo = left, ![g].full = {}, ![g].select = 1,
                             ![g].pc = IF left = {} THEN "reading" ELSE "publishing"]

Offer(g, channel) ==
    /\ stream[g].select = 1 /\ HasRoom(channel)
    /\ SetFrames(channel, Append(Frames(channel), Frame(g)))
    /\ ServedTo(g, channel)

FindFull(g, channel) ==
    /\ stream[g].select = 1 /\ ~HasRoom(channel)
    /\ stream' = [stream EXCEPT ![g].full = {channel}, ![g].select = 2]
    /\ UNCHANGED view

NothingDropped(frames) == frames

\* What a receive leaves of a channel; the default when it is empty by now.
WithoutOldest(frames) == IF frames = << >> THEN << >> ELSE Tail(frames)

DropOldest(g, channel) ==
    /\ stream[g].select = 2 /\ channel \in stream[g].full
    /\ SetFrames(channel, WithoutOldest(Frames(channel)))
    /\ stream' = [stream EXCEPT ![g].select = 3]

\* Another publisher may have taken the room: then the frame is lost.
OfferAgain(g, channel) ==
    /\ stream[g].select = 3 /\ channel \in stream[g].full
    /\ IF HasRoom(channel)
       THEN SetFrames(channel, Append(Frames(channel), Frame(g)))
       ELSE UNCHANGED view
    /\ ServedTo(g, channel)

Publish(g) ==
    /\ stream[g].pc = "publishing"
    /\ \E channel \in stream[g].todo :
          \/ Offer(g, channel) \/ FindFull(g, channel)
          \/ DropOldest(g, channel) \/ OfferAgain(g, channel)
    /\ UNCHANGED <<current, samples>>

\* run returns, because a Docker call or the decoder failed or the context is
\* done: under the mutex the hub forgets the stream, unless it has another one
\* by now, and done is closed.
End(g) ==
    /\ stream[g].pc \in {"opening", "reading"}
    /\ current' = IF current = g THEN NoStream ELSE current
    /\ stream' = [stream EXCEPT ![g].pc = "over", ![g].cancelled = TRUE]
    /\ UNCHANGED <<view, samples>>

Stopped(g) == stream[g].cancelled /\ End(g)
Broken(g) == ~stream[g].cancelled /\ End(g)

-----------------------------------------------------------------------------
(* Serve, the handler of a viewer's connection, with its reader and pinger.*)

GoView(v, pc) == view' = [view EXCEPT ![v].pc = pc]

Receive(v) ==
    /\ view[v].pc = "watching" /\ view[v].frames # << >>
    /\ view' = [view EXCEPT ![v].pc = "writing", ![v].got = <<Head(view[v].frames)>>,
                            ![v].frames = Tail(@)]
    /\ UNCHANGED <<current, stream, samples>>

Written(v) ==
    /\ view[v].pc = "writing" /\ ~view[v].gone
    /\ GoView(v, "watching")
    /\ UNCHANGED <<current, stream, samples>>

\* The write fails, at the latest when its deadline has passed.
WriteFails(v) ==
    /\ view[v].pc = "writing"
    /\ view' = [view EXCEPT ![v].pc = "leaving", ![v].done = TRUE]
    /\ UNCHANGED <<current, stream, samples>>

SeeOwnEnd(v) ==
    /\ view[v].pc = "watching" /\ view[v].done
    /\ GoView(v, "leaving")
    /\ UNCHANGED <<current, stream, samples>>

\* The handler's context is done, or the stream is.
SeeEnd(v) ==
    /\ view[v].pc = "watching"
    /\ view[v].done \/ stream[view[v].stream].pc = "over"
    /\ GoView(v, "leaving")
    /\ UNCHANGED <<current, stream, samples>>

\* The deferred calls: unsubscribe, cancel, close the connection.
Leave(v) ==
    /\ view[v].pc = "leaving"
    /\ Unsubscribed(v)
    /\ view' = [view EXCEPT ![v] = [Away EXCEPT !.visit = view[v].visit]]
    /\ UNCHANGED samples

HangUp(v) ==
    /\ view[v].pc # "idle" /\ ~view[v].gone
    /\ view' = [view EXCEPT ![v].gone = TRUE]
    /\ UNCHANGED <<current, stream, samples>>

\* The pinger's control message fails.
PingFails(v) ==
    /\ view[v].pc \in {"watching", "writing"} /\ view[v].gone /\ ~view[v].done
    /\ view' = [view EXCEPT ![v].done = TRUE]
    /\ UNCHANGED <<current, stream, samples>>

\* The reader has an error from the connection: cancel, then unsubscribe.
ReaderUnsubscribes(v) ==
    /\ view[v].pc # "idle" /\ view[v].gone /\ ~view[v].released
    /\ Unsubscribed(v)
    /\ view' = [view EXCEPT ![v].done = TRUE, ![v].released = TRUE]
    /\ UNCHANGED samples

-----------------------------------------------------------------------------
StreamWorks(g) == Open(g) \/ Publish(g) \/ Stopped(g)
ViewWorks(v) ==
    \/ Receive(v) \/ Written(v) \/ WriteFails(v) \/ SeeEnd(v) \/ Leave(v)
    \/ ReaderUnsubscribes(v)

HubNext ==
    \/ \E g \in StreamIds : StreamWorks(g) \/ Sample(g) \/ Broken(g)
    \/ \E v \in Viewers : ViewWorks(v) \/ Subscribe(v) \/ HangUp(v) \/ PingFails(v)

HubSpec == HubInit /\ [][HubNext]_hubVars

-----------------------------------------------------------------------------
Live(g) == stream[g].pc \notin {"none", "over"} /\ ~stream[g].cancelled

\* README.md:714: one stats stream per container is shared by the connected
\* viewers, started by the first and cancelled when the last one leaves.
OneSharedStream ==
    /\ \A g \in StreamIds : Live(g) =>
          /\ g = current
          /\ stream[g].subscribers # {}
          /\ stream[g].subscribers =
                {Channel(v) : v \in {u \in Viewers : view[u].stream = g /\ ~view[u].released}}
    /\ \A v \in Viewers : ~view[v].released =>
          Live(view[v].stream) \/ stream[view[v].stream].pc = "over"

Seen(v) == view[v].got \o view[v].frames

\* What a viewer gets of a stream is in order, each frame once, none from
\* before he came, however slow he is and whoever else publishes.
FramesInOrder ==
    \A v \in Viewers : \A i, j \in DOMAIN Seen(v) :
        /\ Seen(v)[i].n > view[v].since
        /\ i < j /\ Seen(v)[i].from = Seen(v)[j].from => Seen(v)[i].n < Seen(v)[j].n

\* A slow viewer loses old frames and never the latest (the three selects of
\* publish): between two samples it is the last thing he has got or will get.
\* Not so while an older stream hands out its last frame as well.
NewestKept ==
    \A v \in Viewers :
        LET g == view[v].stream IN
        /\ view[v].pc \in {"watching", "writing"} /\ ~view[v].released
        /\ Live(g) /\ stream[g].pc = "reading" /\ stream[g].frame > view[v].since
        /\ \A h \in StreamIds \ {g} : stream[h].frame <= view[v].since
        => Seen(v) # << >> /\ Last(Seen(v)).n = stream[g].frame

\* However slow a viewer is, and whoever else publishes, what he is shown is
\* in order and as recent as his stream (metrics_stream.go:146-158).
ViewersCurrent == FramesInOrder /\ NewestKept

\* Nobody waits for ever: a viewer who hung up, or whose stream is over, is
\* let go; a cancelled stream ends; publishing never waits for a slow viewer.
HubSettles ==
    /\ \A v \in Viewers :
          (view[v].pc # "idle" /\ (view[v].gone \/ stream[view[v].stream].pc = "over"))
              ~> (view[v].pc = "idle")
    /\ \A g \in StreamIds :
          /\ stream[g].cancelled ~> (stream[g].pc = "over")
          /\ (stream[g].pc = "publishing") ~> (stream[g].pc # "publishing")
=============================================================================
