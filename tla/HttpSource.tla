------------------------------- MODULE HttpSource -------------------------------
(* Bytes of a remote source between the network and the decoder: the fetch     *)
(* tasks (http/service.rs), which answers they accept (http/response.rs), the  *)
(* shared channel with its generation (http/channel.rs), and the reading and   *)
(* seeking end on the decode thread (http/source.rs), under a main thread that *)
(* may retire, freeze and thaw at any moment and a server whose object changes *)
(* and whose answers may be wrong or end anywhere.                             *)
(*                                                                             *)
(* A byte is its offset in the object and the tag (validator) of the answer it *)
(* came in.  Redirects, statuses and causes of failure are one failure each.   *)
EXTENDS Naturals, Sequences

CONSTANTS Sizes,        \* the length of each version of the object, in bytes
          ChannelCap,   \* capacity of the channel
          ChunkCap,     \* Limits.chunk_bytes
          MaxGen,       \* bound: generations of the channel
          MaxControls   \* bound: acts of the main thread

ASSUME HttpAssumption ==
    /\ Sizes \in Seq(Nat) /\ Sizes # <<>>
    /\ {ChannelCap, ChunkCap, MaxGen, MaxControls} \subseteq Nat

VARIABLES chan,         \* SourceInterrupt.state: generation, retired, bytes, outcome, headers
          frozen,       \* State.frozen
          overdue,      \* State.operation_deadline is set, and has passed
          src,          \* HttpMediaSource, and where the decode thread is in it
          fetches,      \* the running fetch tasks, by generation
          version,      \* the version of the object the server holds
          drained,      \* the offset after the last byte taken from the channel
          complete,     \* where the body was said to end when the track was confirmed
          controls
httpVars == <<chan, frozen, overdue, src, fetches, version, drained, complete,
              controls>>

Unknown == 99
Untagged == 0
ObjectVersions == DOMAIN Sizes
Established(tag, total) == [tag |-> tag, total |-> total]
Nothing == Established(Untagged, Unknown)
Headers(st, ranged, live, est) == [st |-> st, ranged |-> ranged, live |-> live, est |-> est]
NoAnswer == Headers("none", FALSE, FALSE, Nothing)
Refusal == Headers("refused", FALSE, FALSE, Nothing)

SourceClosed == [at |-> "closed", gen |-> 0, pos |-> 0, target |-> 0, eof |-> FALSE,
           est |-> Nothing, seekable |-> FALSE, ended |-> FALSE]

(* An error: all that is left is the drop. *)
SourceFailed == [SourceClosed EXCEPT !.at = "failed"]

HttpInit ==
    /\ chan = [gen |-> 1, retired |-> FALSE, bytes |-> <<>>, out |-> "none", end |-> Unknown,
               hdr |-> NoAnswer]
    /\ frozen = FALSE /\ overdue = FALSE /\ src = SourceClosed /\ fetches = <<>>
    /\ version = 1
    /\ drained = 0 /\ complete = Unknown
    /\ controls = 0

-----------------------------------------------------------------------------
(* The channel.                                                              *)
IsCurrent(g) == chan.gen = g /\ ~chan.retired

Emptied(c) == [c EXCEPT !.gen = @ + 1, !.bytes = <<>>, !.out = "none", !.end = Unknown,
                           !.hdr = NoAnswer]
Retired(c) == [Emptied(c) EXCEPT !.retired = TRUE]
Begun(c) == [Emptied(c) EXCEPT !.retired = FALSE]

(* publish_headers and finish: discarded for any but the live generation, and *)
(* only the first one counts.                                                 *)
PublishAnswer(g, answer) ==
    chan' = IF IsCurrent(g) /\ chan.hdr = NoAnswer THEN [chan EXCEPT !.hdr = answer] ELSE chan

Finish(g, outcome, end) ==
    chan' = IF IsCurrent(g) /\ chan.out = "none"
            THEN [chan EXCEPT !.out = outcome, !.end = end] ELSE chan

-----------------------------------------------------------------------------
(* The server: an interval of the present version, right or wrong; the whole *)
(* object; or an endless stream.  It says which version it is and how long,   *)
(* or neither.                                                                *)
Answer(kind, first, last, est) ==
    [kind |-> kind, first |-> first, last |-> last, total |-> est.total, tag |-> est.tag]

Answers ==
    LET size == Sizes[version]
        Told == {Established(version, size), Nothing} IN
    {Answer("interval", first, last, est) :
        first \in 0..(size - 1), last \in 0..(size - 1), est \in Told}
    \cup {Answer("whole", 0, Unknown, est) : est \in Told}
    \cup {Answer("endless", 0, Unknown, Nothing)}

(* response::accept, against where the request starts and what is known.     *)
SameObject(a, est) == a.tag = Untagged \/ est.tag = Untagged \/ a.tag = est.tag
SameTotal(a, est) == a.total = Unknown \/ est.total = Unknown \/ a.total = est.total
AcceptAnswer(a, start, est) ==
    /\ SameObject(a, est) /\ SameTotal(a, est)
    /\ IF a.kind = "interval" THEN a.first = start /\ a.last >= a.first ELSE start = 0

(* The length the answer promises.                                           *)
Advertised(a) == IF a.kind = "interval" THEN (a.last + 1) - a.first ELSE a.total

-----------------------------------------------------------------------------
(* A fetch task: asking, answered, reading the body, holding a chunk of it   *)
(* that waits for room, or done with the body.                               *)
Asking(start, est) ==
    [st |-> "asking", start |-> start, est |-> est, resumed |-> FALSE, answer |-> <<>>,
     got |-> 0, clean |-> TRUE]

HttpRest == UNCHANGED <<frozen, overdue, src, version, drained, complete, controls>>
Task(g) == fetches[g]
SetTask(g, t) == fetches' = [fetches EXCEPT ![g] = t]
EndTask(g) == fetches' = [h \in DOMAIN fetches \ {g} |-> fetches[h]]

(* Every await of a task is a race that cancelled() wins: a superseded task is *)
(* gone at once, unless it was past its await or holds bytes in push.         *)
Surviving == {h \in DOMAIN fetches : Task(h).st \notin {"asking", "body"}}
Supersede == fetches' = [h \in Surviving |-> fetches[h]]
NewTask(g, start, est) ==
    fetches' = [h \in Surviving \cup {g} |->
                    IF h = g THEN Asking(start, est) ELSE fetches[h]]
Cancelled(g) ==
    /\ Task(g).st = "holding" /\ ~IsCurrent(g)
    /\ EndTask(g) /\ UNCHANGED chan /\ HttpRest

Answered(g) ==
    /\ Task(g).st = "asking" /\ IsCurrent(g)
    /\ \E a \in Answers :
        /\ AcceptAnswer(a, Task(g).start, Task(g).est)
        /\ SetTask(g, [Task(g) EXCEPT !.st = "answered", !.answer = <<a>>])
    /\ UNCHANGED chan /\ HttpRest

(* No answer within the header timeout, a refused redirect, an answer that   *)
(* accept turns down: an error to the header wait, or to the reader once the *)
(* body had begun.                                                           *)
RequestFails(g) ==
    /\ Task(g).st = "asking"
    /\ IF Task(g).resumed THEN Finish(g, "failed", Unknown) ELSE PublishAnswer(g, Refusal)
    /\ EndTask(g) /\ HttpRest

(* established.unwrap_or: the request of an opening came with no facts and    *)
(* takes those of its answer; a seek's came with what the opening had, which *)
(* may be nothing, and stays with it; so does whatever resumes either.       *)
FactsFor(t, a) ==
    IF src.at = "opening" /\ ~t.resumed THEN Established(a.tag, a.total) ELSE t.est

SourceOpened(g) ==
    LET t == Task(g) a == t.answer[1] IN
    /\ t.st = "answered"
    /\ IF t.resumed THEN UNCHANGED chan
       ELSE PublishAnswer(g, Headers("ok", a.kind = "interval", a.kind = "endless",
                               Established(a.tag, a.total)))
    /\ SetTask(g, [t EXCEPT !.st = "body", !.got = 0, !.est = FactsFor(t, a)])
    /\ HttpRest

(* response.chunk(): a byte, which may be past the interval.                 *)
Chunk(g) ==
    LET t == Task(g) IN
    /\ t.st = "body" /\ IsCurrent(g) /\ t.answer[1].first + t.got <= Sizes[version]
    /\ SetTask(g, [t EXCEPT !.st = "holding"])
    /\ UNCHANGED chan /\ HttpRest

(* push: it waits for room, and only what was promised is let through.       *)
Promised(t) == Advertised(t.answer[1]) = Unknown \/ t.got < Advertised(t.answer[1])
ChannelPushed(t) == [at |-> t.answer[1].first + t.got, tag |-> t.answer[1].tag]
PushOneByte(g) ==
    LET t == Task(g) IN
    /\ t.st = "holding" /\ Promised(t) /\ Len(chan.bytes) < ChannelCap
    /\ chan' = [chan EXCEPT !.bytes = Append(@, ChannelPushed(t))]
    /\ SetTask(g, [t EXCEPT !.got = @ + 1, !.st = "body"])
    /\ HttpRest
PushBytes(g) == IsCurrent(g) /\ PushOneByte(g)

Exceeds(g) ==
    LET t == Task(g) IN
    /\ t.st = "holding" /\ ~Promised(t)
    /\ Finish(g, "failed", Unknown) /\ EndTask(g) /\ HttpRest

(* The body ends, cleanly or not, anywhere.                                  *)
BodyEnds(g) ==
    /\ Task(g).st = "body" /\ IsCurrent(g)
    /\ \E clean \in BOOLEAN : SetTask(g, [Task(g) EXCEPT !.st = "ended", !.clean = clean])
    /\ UNCHANGED chan /\ HttpRest

(* No chunk for as long as the stall budget, of which only unfrozen time is  *)
(* charged.                                                                  *)
BodyStalls(g) ==
    /\ Task(g).st = "body" /\ IsCurrent(g) /\ ~frozen
    /\ Finish(g, "failed", Unknown) /\ EndTask(g) /\ HttpRest

Short(t) == Advertised(t.answer[1]) # Unknown /\ t.got < Advertised(t.answer[1])
Resumable(t) == Short(t) /\ t.answer[1].kind = "interval" /\ t.got >= ChunkCap
ResumeFrom(t) == t.start + t.got

ResumeBody(g) ==
    /\ Task(g).st = "ended" /\ Resumable(Task(g))
    /\ SetTask(g, [Task(g) EXCEPT !.st = "asking", !.start = ResumeFrom(Task(g)),
                                  !.resumed = TRUE, !.got = 0, !.answer = <<>>])
    /\ UNCHANGED chan /\ HttpRest

(* classify_body_end: an end is one only of a body that kept its promise,    *)
(* and never of a live one.                                                  *)
BodyOutcomeUnmeasured(t) ==
    IF t.answer[1].kind = "endless" \/ ~t.clean THEN "failed" ELSE "eof"
BodyOutcome(t) ==
    IF t.answer[1].kind = "endless" \/ Short(t) \/ ~t.clean THEN "failed" ELSE "eof"
BodyOver(g) ==
    LET t == Task(g) adv == Advertised(t.answer[1]) IN
    /\ t.st = "ended" /\ ~Resumable(t)
    /\ Finish(g, BodyOutcome(t), IF adv = Unknown THEN Unknown ELSE t.start + adv)
    /\ EndTask(g) /\ HttpRest

Fetching(g) ==
    \/ Cancelled(g) \/ Answered(g) \/ RequestFails(g) \/ SourceOpened(g)
    \/ Chunk(g) \/ PushBytes(g)
    \/ Exceeds(g) \/ BodyEnds(g) \/ BodyStalls(g) \/ ResumeBody(g) \/ BodyOver(g)

-----------------------------------------------------------------------------
(* The decode thread.                                                        *)
Decoding == UNCHANGED <<frozen, version, controls>>
Mute == UNCHANGED <<drained, complete>>

AskRange(start, est) ==
    /\ chan.gen < MaxGen
    /\ chan' = Begun(chan)
    /\ NewTask(chan.gen + 1, start, est)

(* The source and what it was are dropped; Drop retires.                     *)
Gone == chan' = Retired(chan) /\ Supersede /\ src' = SourceClosed

OpenSource ==
    /\ src.at = "closed"
    /\ AskRange(0, Nothing)
    /\ src' = [SourceClosed EXCEPT !.at = "opening", !.gen = chan.gen + 1]
    /\ UNCHANGED overdue /\ Decoding /\ Mute

HeadersFor(g) == IsCurrent(g) /\ chan.hdr.st = "ok"

OpenAnswered ==
    /\ src.at = "opening" /\ HeadersFor(src.gen)
    /\ src' = [src EXCEPT !.at = "idle", !.gen = 0, !.est = chan.hdr.est,
                           !.seekable = chan.hdr.ranged]
    /\ drained' = 0
    /\ UNCHANGED <<chan, overdue, fetches, complete>> /\ Decoding

(* Retired, refused, or no headers in time.                                  *)
OpenFails ==
    /\ src.at = "opening"
    /\ Gone /\ UNCHANGED overdue /\ Decoding /\ Mute

(* Read::read: its own end of file, and what the opening refuses it (its      *)
(* deadline passed, the probe's share of bytes is used up), before any wait.  *)
Reading == src.at = "idle" /\ ~src.ended
BeginRead ==
    /\ Reading /\ ~src.eof
    /\ src' = [src EXCEPT !.at = "reading", !.gen = chan.gen]
    /\ UNCHANGED <<chan, overdue, fetches>> /\ Decoding /\ Mute
ReadAtEnd ==
    /\ Reading /\ src.eof
    /\ src' = [src EXCEPT !.ended = TRUE]
    /\ UNCHANGED <<chan, overdue, fetches>> /\ Decoding /\ Mute
ReadRefused ==
    /\ Reading /\ ~src.eof
    /\ src' = SourceFailed
    /\ UNCHANGED <<chan, overdue, fetches>> /\ Decoding /\ Mute

(* confirm_remote_completion, once the decoder has seen the end of the file. *)
BeginConfirm ==
    /\ src.at = "idle" /\ src.ended
    /\ src' = [src EXCEPT !.at = "confirming", !.gen = chan.gen]
    /\ UNCHANGED <<chan, overdue, fetches>> /\ Decoding /\ Mute

(* ByteChannel::read, one pass: retired, bytes, outcome, the stall budget (of *)
(* which only unfrozen time is charged), the deadline, or another slice.      *)
InChannel == src.at \in {"reading", "confirming"}
Entered == IsCurrent(src.gen)

ReadRetired ==
    /\ InChannel /\ ~Entered
    /\ src' = SourceFailed
    /\ UNCHANGED <<chan, overdue, fetches>> /\ Decoding /\ Mute

ReadBytes ==
    /\ InChannel /\ Entered /\ chan.bytes # <<>>
    /\ \E n \in 1..Len(chan.bytes) :
        LET taken == SubSeq(chan.bytes, 1, n) IN
        /\ chan' = [chan EXCEPT !.bytes = SubSeq(@, n + 1, Len(@))]
        /\ drained' = taken[n].at + 1
        /\ IF src.at = "reading"
           THEN src' = [src EXCEPT !.at = "idle", !.gen = 0, !.pos = @ + n]
           ELSE UNCHANGED src
    /\ UNCHANGED <<overdue, fetches, complete>> /\ Decoding

(* Ok(0): the decoder meets its end of file.                                 *)
ReadEof ==
    /\ InChannel /\ Entered /\ chan.bytes = <<>> /\ chan.out = "eof"
    /\ IF src.at = "reading"
       THEN src' = [src EXCEPT !.at = "idle", !.gen = 0, !.ended = TRUE] /\ UNCHANGED complete
       ELSE src' = [src EXCEPT !.at = "complete"] /\ complete' = chan.end
    /\ UNCHANGED <<chan, overdue, fetches, drained>> /\ Decoding

ReadTimesOut(f) == ~f \/ overdue
ReadFails ==
    /\ InChannel /\ Entered /\ chan.bytes = <<>>
    /\ chan.out = "failed" \/ (chan.out = "none" /\ ReadTimesOut(frozen))
    /\ src' = SourceFailed
    /\ UNCHANGED <<chan, overdue, fetches>> /\ Decoding /\ Mute

(* Seek::seek.  Where it already is, and the end of a file whose length is   *)
(* known, need no request.                                                   *)
Seekable(target) == src.at = "idle" /\ target # src.pos
SeekEnd ==
    /\ src.est.total # Unknown /\ Seekable(src.est.total)
    /\ src' = [src EXCEPT !.pos = src.est.total, !.eof = TRUE, !.ended = FALSE]
    /\ UNCHANGED <<chan, overdue, fetches>> /\ Decoding /\ Mute

SeekAsks ==
    /\ src.seekable
    /\ \E target \in 0..(Sizes[1] - 1) :
        /\ Seekable(target) /\ target # src.est.total
        /\ AskRange(target, src.est)
        /\ src' = [src EXCEPT !.at = "seeking", !.gen = chan.gen + 1, !.target = target]
    /\ UNCHANGED overdue /\ Decoding /\ Mute

SeekHeaders ==
    /\ src.at = "seeking" /\ HeadersFor(src.gen)
    /\ src' = [src EXCEPT !.at = "landing"]
    /\ UNCHANGED <<chan, overdue, fetches>> /\ Decoding /\ Mute
SeekFails ==
    /\ \/ src.at = "seeking"
       \/ src.at = "landing" /\ ~Entered
    /\ chan' = Retired(chan) /\ Supersede
    /\ src' = SourceFailed
    /\ UNCHANGED overdue /\ Decoding /\ Mute
SeekLands ==
    /\ src.at = "landing" /\ Entered
    /\ src' = [src EXCEPT !.at = "idle", !.gen = 0, !.pos = src.target, !.target = 0,
                          !.eof = FALSE, !.ended = FALSE]
    /\ drained' = src.target
    /\ UNCHANGED <<chan, overdue, fetches, complete>> /\ Decoding

(* The engine's deadline around one seek and the reads it makes.             *)
DeadlinePasses ==
    /\ src.at = "reading" /\ ~overdue /\ overdue' = TRUE
    /\ UNCHANGED <<chan, src, fetches>> /\ Decoding /\ Mute
DeadlineCleared ==
    /\ src.at \in {"idle", "failed"} /\ overdue /\ overdue' = FALSE
    /\ UNCHANGED <<chan, src, fetches>> /\ Decoding /\ Mute

SourceDropped ==
    /\ src.at \in {"idle", "failed", "complete"} /\ ~overdue
    /\ Gone /\ drained' = 0 /\ complete' = Unknown
    /\ UNCHANGED overdue /\ Decoding

Returning == ReadRetired \/ ReadBytes \/ ReadEof \/ ReadFails
DecodeThread ==
    \/ OpenSource \/ OpenAnswered \/ OpenFails
    \/ BeginRead \/ ReadAtEnd \/ ReadRefused \/ BeginConfirm \/ Returning
    \/ SeekEnd \/ SeekAsks \/ SeekHeaders \/ SeekFails \/ SeekLands
    \/ DeadlinePasses \/ DeadlineCleared \/ SourceDropped

-----------------------------------------------------------------------------
(* The main thread, and the server's object.                                 *)
Controls == controls < MaxControls /\ controls' = controls + 1
RetireSource ==
    /\ Controls /\ ~chan.retired /\ chan' = Retired(chan) /\ Supersede
    /\ UNCHANGED <<frozen, overdue, src, version>> /\ Mute
FreezeOrThaw ==
    /\ Controls /\ frozen' = ~frozen
    /\ UNCHANGED <<chan, overdue, src, fetches, version>> /\ Mute
Replaced ==
    /\ Controls /\ \E v \in ObjectVersions \ {version} : version' = v
    /\ UNCHANGED <<chan, frozen, overdue, src, fetches>> /\ Mute

HttpNext ==
    \/ \E g \in DOMAIN fetches : Fetching(g)
    \/ DecodeThread \/ RetireSource \/ FreezeOrThaw \/ Replaced
HttpSpec == HttpInit /\ [][HttpNext]_httpVars

-----------------------------------------------------------------------------
(* While the source is open and not retired, the bytes waiting for the next  *)
(* read are those of the object at its position, and of the very version that *)
(* was opened unless no answer could be told from another: whatever was       *)
(* superseded, resumed or answered out of place (channel.rs:420, push,        *)
(* service.rs Fetch::request).                                                *)
BytesAreThose ==
    src.at \in {"idle", "reading", "confirming"} /\ ~chan.retired =>
        /\ \A i \in DOMAIN chan.bytes :
            /\ chan.bytes[i].at = drained + i - 1
            /\ SameObject(chan.bytes[i], src.est)
        /\ src.eof \/ src.at = "confirming" \/ src.pos = drained

(* A track is confirmed complete only when the body's last byte, where the   *)
(* answer said it would be, was drained: neither a body cut short nor the    *)
(* end of a superseded one passes for it (classify_body_end, finish).        *)
CompleteIsPromised ==
    src.at = "complete" => complete \in {drained, Unknown}

(* docs/superpowers/specs/2026-09-09-tenuto-finite-http-design.md:198: "A    *)
(* response that ends a smaller valid interval before the object ends        *)
(* requires another validated request at the next byte; it is not media      *)
(* EOF."  A complete track has had its last byte.                            *)
CompleteIsWhole ==
    src.at = "complete" /\ src.est.total # Unknown => drained = src.est.total
=============================================================================
