----------------------------- MODULE OutputSpool -----------------------------
(***************************************************************************)
(* The output of one attempt: the worker appends what its command prints   *)
(* to one file per stream within a common quota and commits the manifest;  *)
(* the daemon, another process, answers pages of these files to a client   *)
(* that follows nextCursor.                                                *)
(*                                                                         *)
(* A page opens the spool anew (DurableRunner.output), and the system      *)
(* calls of the constructor fall between those of the worker, so opening   *)
(* is two steps and reading a third.  Pages of one daemon never overlap:   *)
(* the handler does not await.                                             *)
(*                                                                         *)
(* A byte is its class in UTF-8: a lead byte named by the width of its     *)
(* character, or a continuation byte.  Malformed leads count as "one".     *)
(***************************************************************************)
EXTENDS Integers, Sequences

CONSTANTS
    Texts,      \* what commands may print: [Streams -> Seq(Bytes)]
    MaxBytes,   \* OutputSpool.maxBytes
    PageSizes,  \* the maxBytes clients ask for
    NoManifest

Streams == {"stdout", "stderr"}
Bytes == {"one", "two", "three", "four", "cont"}

ASSUME SpoolAssumption ==
    /\ Texts \subseteq [Streams -> Seq(Bytes)]
    /\ MaxBytes \in Nat
    /\ PageSizes \subseteq Nat
    /\ NoManifest \notin [stdout : Nat, stderr : Nat, dropped : Nat]

VARIABLES
    text,      \* what the command prints on each stream
    read,      \* how much of it the worker took from the pipes
    spool,     \* the stream files
    bytes,     \* the worker's OutputSpool.bytes
    dropped,   \* the worker's OutputSpool.droppedBytes
    failed,    \* the worker's outputFailure
    worker,    \* collecting, or gone
    manifest,  \* completion.json
    step,      \* where the daemon's output handler is
    view,      \* the OutputSpool it constructs
    page       \* the last page of each stream the client received

workerVars == <<read, spool, bytes, dropped, failed, worker, manifest>>
vars == <<text, workerVars, step, view, page>>

Manifests == [stdout : Nat, stderr : Nat, dropped : Nat]
Views == [stream : Streams, bytes : Nat, finalized : BOOLEAN, dropped : Nat]
EmptyView(s) == [stream |-> s, bytes |-> 0, finalized |-> FALSE, dropped |-> 0]
(* size is the number of bytes the page knew of; the code does not return  *)
(* it, properties need it.                                                 *)
Pages == [cursor : Nat, nextCursor : Nat, size : Nat,
          complete : BOOLEAN, truncated : BOOLEAN]

TypeOK ==
    /\ text \in Texts
    /\ read \in [Streams -> Nat]
    /\ spool \in [Streams -> Seq(Bytes)]
    /\ bytes \in [Streams -> Nat]
    /\ dropped \in Nat
    /\ failed \in BOOLEAN
    /\ worker \in {"collecting", "gone"}
    /\ manifest \in Manifests \cup {NoManifest}
    /\ step \in {"idle", "sized", "opened"}
    /\ view \in Views
    /\ page \in [Streams -> Pages]

Init ==
    /\ text \in Texts
    /\ read = [s \in Streams |-> 0]
    /\ spool = [s \in Streams |-> <<>>]
    /\ bytes = [s \in Streams |-> 0]
    /\ dropped = 0
    /\ failed = FALSE
    /\ worker = "collecting"
    /\ manifest = NoManifest
    /\ step = "idle"
    /\ view = EmptyView("stdout")
    /\ page = [s \in Streams |-> [cursor |-> 0, nextCursor |-> 0, size |-> 0,
                                  complete |-> FALSE, truncated |-> FALSE]]

Least(m, n) == IF m <= n THEN m ELSE n

-----------------------------------------------------------------------------
(* The worker.                                                             *)

OneStreamMutant == IF bytes["stdout"] >= MaxBytes THEN 0 ELSE MaxBytes - bytes["stdout"]

available == IF bytes["stdout"] + bytes["stderr"] >= MaxBytes THEN 0
             ELSE MaxBytes - bytes["stdout"] - bytes["stderr"]

(* The next n bytes of a stream arrive as one chunk.                       *)
Arrives(s, n) ==
    /\ worker = "collecting"
    /\ n \in 1 .. Len(text[s]) - read[s]
    /\ read' = [read EXCEPT ![s] = @ + n]

(* k bytes of the chunk reach the file.                                    *)
Write(s, k) ==
    spool' = [spool EXCEPT ![s] = @ \o SubSeq(text[s], read[s] + 1, read[s] + k)]

SkipChunkMutant(s, n) ==
    LET written == IF n <= available THEN n ELSE 0 IN
    /\ Write(s, written)
    /\ bytes' = [bytes EXCEPT ![s] = @ + written]
    /\ dropped' = dropped + (n - written)

append(s, n) ==
    LET written == Least(n, available) IN
    /\ Write(s, written)
    /\ bytes' = [bytes EXCEPT ![s] = @ + written]
    /\ dropped' = dropped + (n - written)

Collect(s, n) ==
    /\ ~failed
    /\ Arrives(s, n)
    /\ append(s, n)
    /\ UNCHANGED <<text, failed, worker, manifest, step, view, page>>

(* appendFileSync throws after it wrote some of the bytes, or none.        *)
AppendFails(s, n, k) ==
    /\ ~failed
    /\ Arrives(s, n)
    /\ Least(n, available) > 0 /\ k \in 0 .. Least(n, available)
    /\ Write(s, k)
    /\ failed' = TRUE
    /\ UNCHANGED <<text, bytes, dropped, worker, manifest, step, view, page>>

(* After a failure the pipes are drained and their bytes thrown away.      *)
Drain(s, n) ==
    /\ failed
    /\ Arrives(s, n)
    /\ UNCHANGED <<text, spool, bytes, dropped, failed, worker, manifest,
                   step, view, page>>

AttestAnywayMutant ==
    /\ worker = "collecting"
    /\ manifest' = [stdout |-> bytes["stdout"], stderr |-> bytes["stderr"],
                    dropped |-> dropped]
    /\ worker' = "gone"
    /\ UNCHANGED <<text, read, spool, bytes, dropped, failed, step, view, page>>

(* The command ended, at whatever point of its text, and both pipes are at *)
(* their end.  Readers see the manifest from its rename on.                *)
Finalize ==
    /\ worker = "collecting" /\ ~failed
    /\ manifest' = [stdout |-> bytes["stdout"], stderr |-> bytes["stderr"],
                    dropped |-> dropped]
    /\ worker' = "gone"
    /\ UNCHANGED <<text, read, spool, bytes, dropped, failed, step, view, page>>

(* The worker throws for a failed append, or dies, or is killed.           *)
WorkerLost ==
    /\ worker = "collecting"
    /\ worker' = "gone"
    /\ UNCHANGED <<text, read, spool, bytes, dropped, failed, manifest,
                   step, view, page>>

-----------------------------------------------------------------------------
(* The daemon's answer to one page request.                                *)

(* The client asks until it has a page that says complete.                 *)
OpenSpool(s) ==
    /\ step = "idle" /\ ~page[s].complete
    /\ step' = "sized"
    /\ view' = [EmptyView(s) EXCEPT !.bytes = Len(spool[s])]
    /\ UNCHANGED <<text, workerVars, page>>

NoDroppedMutant ==
    /\ step = "sized"
    /\ step' = "opened"
    /\ view' = [view EXCEPT !.finalized = manifest # NoManifest]
    /\ UNCHANGED <<text, workerVars, page>>

StillOpenMutant ==
    /\ step = "sized"
    /\ step' = "opened"
    /\ view' = IF manifest = NoManifest THEN view
               ELSE [view EXCEPT !.dropped = manifest.dropped]
    /\ UNCHANGED <<text, workerVars, page>>

LoadManifest ==
    /\ step = "sized"
    /\ step' = "opened"
    /\ view' = IF manifest = NoManifest THEN view
               ELSE [view EXCEPT !.dropped = manifest.dropped, !.finalized = TRUE]
    /\ UNCHANGED <<text, workerVars, page>>

(* A byte below 0x80 and a malformed lead count one; so does a stray       *)
(* continuation byte.                                                      *)
Width(b) == CASE b = "two" -> 2 [] b = "three" -> 3 [] b = "four" -> 4
              [] OTHER -> 1

MissOneMutant(buffer, lead) ==
    /\ lead + Width(buffer[lead + 1]) > Len(buffer) + 1
    /\ buffer[lead + 1] # "cont"
    /\ \A i \in lead + 2 .. Len(buffer) : buffer[i] = "cont"

(* The last character of the buffer starts at offset lead and is cut off.  *)
(* Its width is at most four, so only the last three bytes can be lead.    *)
CutOff(buffer, lead) ==
    /\ lead + Width(buffer[lead + 1]) > Len(buffer)
    /\ buffer[lead + 1] # "cont"
    /\ \A i \in lead + 2 .. Len(buffer) : buffer[i] = "cont"

safeLength(buffer) ==
    IF \E lead \in 0 .. Len(buffer) - 1 : CutOff(buffer, lead)
    THEN CHOOSE lead \in 0 .. Len(buffer) - 1 : CutOff(buffer, lead)
    ELSE Len(buffer)

(* How far a page of at most max bytes from cursor on reaches, of size     *)
(* bytes that the reader knows of.                                         *)
pageEnd(file, cursor, size, max) ==
    LET length == Least(max, size - cursor)
        buffer == SubSeq(file, cursor + 1, cursor + length)
    IN  cursor + (IF cursor + length < size THEN safeLength(buffer) ELSE length)

Answer(max) ==
    /\ step = "opened"
    /\ step' = "idle" /\ view' = EmptyView("stdout")
    /\ LET s == view.stream
           cursor == page[s].nextCursor
           next == pageEnd(spool[s], cursor, view.bytes, max)
       IN  /\ cursor <= view.bytes
           /\ page' = [page EXCEPT ![s] =
                [cursor |-> cursor, nextCursor |-> next, size |-> view.bytes,
                 complete |-> view.finalized /\ next = view.bytes,
                 truncated |-> view.dropped > 0]]
    /\ UNCHANGED <<text, workerVars>>

AnySizeMutant(max) == Answer(max)
(* A request for less than four bytes is refused.                          *)
Page(max) == max >= 4 /\ Answer(max)

-----------------------------------------------------------------------------
Printed(s) == 1 .. Len(text[s])

WorkerStep ==
    \/ \E s \in Streams : \E n \in Printed(s) :
          \/ Collect(s, n)
          \/ \E k \in 0 .. n : AppendFails(s, n, k)
          \/ Drain(s, n)
    \/ Finalize
    \/ WorkerLost

Next ==
    \/ WorkerStep
    \/ \E s \in Streams : OpenSpool(s)
    \/ LoadManifest
    \/ \E max \in PageSizes : Page(max)

(* The client asks for each stream again until it is complete, and the     *)
(* daemon answers; nothing is assumed of the worker.  Strong fairness of   *)
(* OpenSpool: requests for the other stream come between.                  *)
Fairness ==
    /\ \A s \in Streams : SF_vars(OpenSpool(s))
    /\ WF_vars(LoadManifest)
    /\ WF_vars(\E max \in PageSizes : Page(max))

Spec == Init /\ [][Next]_vars /\ Fairness

-----------------------------------------------------------------------------
(* Properties.                                                             *)

(* The files of an attempt never take more than maxBytes together,         *)
(* whichever stream the bytes came from and wherever a write failed.       *)
QuotaHeld == Len(spool["stdout"]) + Len(spool["stderr"]) <= MaxBytes

(* What is retained of a stream is a prefix of what was printed: once a    *)
(* byte was dropped at the quota, no later one is appended after the gap.  *)
NoGap ==
    \A s \in Streams :
        /\ Len(spool[s]) <= read[s]
        /\ \A i \in 1 .. Len(spool[s]) : spool[s][i] = text[s][i]

(* A manifest attests to the files as they are, which the import requires, *)
(* and accounts for every byte that the worker took from the pipes.        *)
ManifestAttests ==
    manifest # NoManifest =>
        /\ manifest.stdout = Len(spool["stdout"])
        /\ manifest.stderr = Len(spool["stderr"])
        /\ manifest.stdout + manifest.stderr + manifest.dropped =
              read["stdout"] + read["stderr"]

(* A page with bytes left to return returns at least one of them, however  *)
(* the bytes fall into characters: a client never asks in vain.            *)
CursorAdvances ==
    \A s \in Streams : page[s].cursor < page[s].size => page[s].cursor < page[s].nextCursor

WellFormed(t) ==
    /\ \A i \in 1 .. Len(t) :
          (t[i] = "cont") <=> \E l \in 1 .. i - 1 : t[l] # "cont" /\ Width(t[l]) > i - l
    /\ \A i \in 1 .. Len(t) : i + Width(t[i]) <= Len(t) + 1

Boundary(t, c) == c \in 0 .. Len(t) /\ (c < Len(t) => t[c + 1] # "cont")

(* A page that ends before the bytes it knew of does not end inside a      *)
(* character.                                                              *)
PagesWhole ==
    \A s \in Streams :
        (WellFormed(text[s]) /\ page[s].nextCursor < page[s].size)
            => Boundary(text[s], page[s].nextCursor)

(* The last page of a finished attempt says truncated exactly if some of   *)
(* its output was dropped.                                                 *)
TruncationTold ==
    \A s \in Streams : page[s].complete =>
        (page[s].truncated <=> Len(spool["stdout"]) + Len(spool["stderr"])
                                   < read["stdout"] + read["stderr"])

(* Once the manifest is committed, a client that keeps asking comes to the *)
(* end of both streams.                                                    *)
OutputEnds == manifest # NoManifest ~> \A s \in Streams : page[s].complete

(* A page that says complete is the end of what the attempt retained.      *)
CompleteIsTheEnd ==
    \A s \in Streams : page[s].complete => page[s].nextCursor = Len(spool[s])
=============================================================================
