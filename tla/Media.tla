---- MODULE Media ----
(***************************************************************************)
(* ingest/core: surveying a folder, turning a file into rows, and turning  *)
(* rows into vectors and, later, a question into one.  Files, frames and   *)
(* words are numbers; what a decoder or a service answers is part of the   *)
(* call.  The run that puts these together is IngestRun.                   *)
(***************************************************************************)
EXTENDS Asked, SequencesExt, TLC

CONSTANTS MaxAttempts,  \* MAX_ATTEMPTS of one request
          MaxWait,      \* seconds at most between two of them
          MaxItems,     \* MAX_BATCH_ITEMS of one request
          MaxBytes,     \* MAX_BATCH_BYTES of one request
          TargetSize, MinSeconds, MaxSeconds,     \* of a segment
          Runt,         \* TARGET_SEGMENT_MB * RUNT_FRACTION
          MinDelta,     \* MIN_SCENE_DELTA
          Sampling,     \* FRAME_SAMPLE_INTERVAL_S
          Memory,       \* words dedupe remembers
          Step          \* TRANSCRIPT_WINDOW_S, and WINDOW_S

ASSUME MediaAssumption ==
    /\ {MaxAttempts, MaxWait, MaxItems, MaxBytes, Memory, Sampling, TargetSize} \subseteq Nat \ {0}
    /\ MinSeconds \in 1..MaxSeconds /\ MaxSeconds \in Nat
    /\ Runt \in 1..TargetSize /\ MinDelta \in Nat
    /\ Step \in Nat \ {0} /\ Step % 2 = 0
    /\ Memory >= 3     \* and no cue of WordCalls says more at once

\* Numbers, the smallest first.
InOrder(S) == At([i \in S |-> i], S)

--------------------------------------------------------------------------
(* Requests to a hosted embedder. *)

\* What one attempt comes to; "dated" is a refusal for now whose Retry-After is a date.
Attempt == [was : {"fine", "refused", "unreachable", "dated"}, after : {<<>>}]
           \cup [was : {"busy"}, after : {<<>>, <<0>>, <<MaxWait + 1>>}]

Wait(a, i) ==
    IF a.was = "unreachable" THEN 2 ^ (i - 1)
    ELSE Lesser(MaxWait, IF a.after # <<>> THEN a.after[1] ELSE 2 ^ (i - 1))

\* _post: again while the refusal is for now and attempts are left.  A date is read as a
\* number, which raises; on the last attempt it is not read.
Post(answers) ==
    LET Ends(i) == answers[i].was \in {"fine", "refused", "dated"} \/ i = MaxAttempts
        n == CHOOSE i \in 1..MaxAttempts : Ends(i) /\ \A j \in 1..i - 1 : ~Ends(j)
        was == answers[n].was
    IN  [attempts |-> n, waits |-> [i \in 1..n - 1 |-> Wait(answers[i], i)],
         raised |-> CASE was = "fine" -> "nothing"
                      [] was = "dated" /\ n < MaxAttempts -> "ValueError"
                      [] OTHER -> "EmbedderError",
         retryable |-> was \notin {"fine", "refused"}]

PostCalls == [op : {"post"}, answers : [1..MaxAttempts -> Attempt]]

\* _batches: by count and by size; one item too large for a request goes alone.
Requests(sizes) ==
    LET Add(b, i) ==
            IF b.now # <<>> /\ (Len(b.now) >= MaxItems \/ b.bytes + sizes[i] > MaxBytes)
            THEN [done |-> Append(b.done, b.now), now |-> <<i>>, bytes |-> sizes[i]]
            ELSE [done |-> b.done, now |-> Append(b.now, i), bytes |-> b.bytes + sizes[i]]
        upto[n \in 0..Len(sizes)] ==
            IF n = 0 THEN [done |-> <<>>, now |-> <<>>, bytes |-> 0] ELSE Add(upto[n - 1], n)
        all == upto[Len(sizes)]
    IN  IF all.now = <<>> THEN all.done ELSE Append(all.done, all.now)

\* _vectors: put in the order of their index; a reply without any is refused.
VectorsOf(request, reply) ==
    LET sent == IF reply.short THEN Front(request) ELSE request
        came == IF reply.reversed THEN Reverse(sent) ELSE sent
    IN  IF reply.indexed THEN InOrder(ToSet(came)) ELSE came

\* embed_texts and embed_images: the items the vectors are of, in the order they are given.
Embedded(c) ==
    LET requests == Requests(c.sizes)
    IN  [requests |-> requests, refused |-> \E r \in ToSet(requests) : VectorsOf(r, c.reply) = <<>>,
         vectors |-> FlattenSeq([i \in DOMAIN requests |-> VectorsOf(requests[i], c.reply)])]

\* _embed_batch: a row with nothing to look at has no vector beside pictures that have.
Column(sees, pictures) ==
    [i \in DOMAIN pictures |-> IF ~sees THEN <<"text", i>>
                               ELSE IF pictures[i] THEN <<"image", i>> ELSE <<>>]

EmbedCalls ==           \* a service that numbers nothing answers in order
    {c \in [op : {"embed"}, sizes : UNION {[1..n -> 1..MaxBytes + 1] : n \in 0..4},
            reply : [indexed : BOOLEAN, reversed : BOOLEAN, short : BOOLEAN]] :
        c.reply.reversed => c.reply.indexed}
    \cup [op : {"column"}, sees : BOOLEAN, pictures : UNION {[1..n -> BOOLEAN] : n \in 1..3}]

AnswerEmbed ==
    \/ Reply("post", Post(call.answers))
    \/ Reply("embed", Embedded(call))
    \/ Reply("column", [vectors |-> Column(call.sees, call.pictures)])

--------------------------------------------------------------------------
(* Which embedder. *)

NoBackend == [backend |-> "none", model |-> "unset", images |-> FALSE]

\* resolve: what was chosen, or nothing; chosen automatically, what sees images comes first.
ResolveEmbedder(e) ==
    LET Hosted(b) == IF e.url /\ e.model # "unset" /\ e.key
                     THEN [backend |-> b, model |-> e.model, images |-> b = "multimodal"]
                     ELSE NoBackend
        Local == IF e.torch THEN [backend |-> "siglip-local", model |-> "siglip", images |-> TRUE]
                 ELSE NoBackend
        Ollama == IF e.ollama THEN [backend |-> "ollama", images |-> FALSE,
                                    model |-> IF e.model = "unset" THEN "nomic" ELSE e.model]
                  ELSE NoBackend
    IN  CASE e.backend = "none" -> NoBackend
          [] e.backend \in {"multimodal", "openai-compat"} -> Hosted(e.backend)
          [] e.backend = "siglip-local" -> Local
          [] e.backend = "ollama" -> Ollama
          [] OTHER -> IF Hosted("multimodal") # NoBackend THEN Hosted("multimodal")
                      ELSE IF Local # NoBackend THEN Local ELSE Ollama

\* identity_metadata and read_identity: what a table says of its vectors.
Identity == {<<>>} \cup {<<[backend |-> b, model |-> m, dim |-> d]>> :
    b \in {"none", "siglip-local", "ollama", "multimodal"}, m \in {"siglip", "m"}, d \in 1..2}

\* embedder_matching: the model's name is compared, and the local model's is not even that.
Matching(identity, e) ==
    LET resolved == ResolveEmbedder(e)
        Match(r) == [available |-> r # NoBackend, with |-> r, says |-> identity]
        No == [available |-> FALSE, with |-> NoBackend, says |-> identity]
    IN  IF identity = <<>> \/ identity[1].backend = "none" THEN [No EXCEPT !.says = <<>>]
        ELSE IF identity[1].backend = "siglip-local"
        THEN Match([backend |-> "siglip-local", model |-> "siglip", images |-> TRUE])
        ELSE IF resolved.model # identity[1].model THEN No
        ELSE Match(resolved)

MatchCalls ==
    [op : {"match"}, identity : Identity,
     e : [backend : {"auto", "none", "multimodal", "openai-compat", "siglip-local", "ollama"},
          url : BOOLEAN, model : {"unset", "m", "n"}, key : BOOLEAN, torch : BOOLEAN, ollama : BOOLEAN]]

AnswerMatch ==
    Reply("match", Joined([resolved |-> ResolveEmbedder(call.e)], Matching(call.identity, call.e)))

--------------------------------------------------------------------------
(* Pictures: keyframes and segments of a video. *)

\* pick_keyframes: frame 0, and the frames after it that changed by more than the floor; of
\* too many the largest changes, the earlier of two alike, in the order of the film.
Keyframes(deltas, budget) ==
    LET changed == {i \in DOMAIN deltas : deltas[i] >= MinDelta}
        Larger(i) == {j \in changed : deltas[j] > deltas[i] \/ (deltas[j] = deltas[i] /\ j < i)}
        within == IF Cardinality(changed) + 1 > budget
                  THEN {i \in changed : Cardinality(Larger(i)) < budget - 1} ELSE changed
    IN  <<0>> \o InOrder(within)

\* segment_seconds_for.
SegmentSeconds(rate) ==
    Lesser(MaxSeconds, Greater(MinSeconds, TargetSize \div Greater(1, rate)))

\* make_segments: ffmpeg cuts at or after every so many seconds.
Segments(start, lengths, rate) ==
    LET ends == [i \in DOMAIN lengths |-> start + SumOf(1..i, LAMBDA j : lengths[j])]
    IN  [i \in DOMAIN lengths |-> [from |-> ends[i] - lengths[i], to |-> ends[i],
                                   size |-> rate * lengths[i], file |-> i]]

\* _fold_runt: a last one too small to have an extent of its own joins the one before.
FoldRunt(segments) ==
    LET n == Len(segments)
        a == segments[n - 1]
        b == segments[n]
    IN  IF n < 2 \/ segments[n].size >= Runt THEN segments
        ELSE Append(SubSeq(segments, 1, n - 2),
                    [a EXCEPT !.to = b.to, !.size = @ + b.size])

\* _chunk_at: the segment that holds a moment, or else the last.
ChunkAt(chunks, ts) ==
    LET holds == {i \in DOMAIN chunks : chunks[i].from <= ts /\ ts < chunks[i].to}
    IN  IF holds = {} THEN chunks[Len(chunks)] ELSE chunks[CHOOSE i \in holds : \A j \in holds : i <= j]

\* VideoHandler.extract: a row for each keyframe, into the segment that plays it.
VideoRows(c) ==
    LET duration == SumOf(DOMAIN c.lengths, LAMBDA i : c.lengths[i])
        chunks == FoldRunt(Segments(c.start, c.lengths, c.rate))
        Row(frame) == LET ts == frame * Sampling
                          chunk == ChunkAt(chunks, ts)
                      IN  [ts |-> ts, to |-> Lesser(ts + Sampling, duration), chunk |-> chunk,
                           offset |-> Greater(0, ts - chunk.from)]
        frames == Keyframes(c.deltas, c.budget)
    IN  [chunks |-> chunks, rows |-> [i \in DOMAIN frames |-> Row(frames[i])]]

VideoCalls ==           \* a frame is sampled inside the film; segments last at least as asked
    {c \in [op : {"video_rows"}, start : 0..1, rate : 1..3,
            lengths : UNION {[1..n -> 1..5] : n \in 1..3},
            deltas : UNION {[1..n -> 0..2] : n \in 0..3}, budget : 1..3] :
        /\ Len(c.deltas) * Sampling < SumOf(DOMAIN c.lengths, LAMBDA i : c.lengths[i])
        /\ \A i \in 1..Len(c.lengths) - 1 : c.lengths[i] - SegmentSeconds(c.rate) \in 0..1}

AnswerVideo == Reply("video_rows", VideoRows(call))

--------------------------------------------------------------------------
(* Words: subtitles, windows, pages and captions. *)

\* parse: the text under a time, up to a blank line or the next time.  A line is a time, a
\* time nobody can read, a blank, a cue's number, or words.
Parse(lines) ==
    LET Flush(s) == IF s.start # <<>> /\ s.buffer # <<>>
                    THEN Append(s.cues, [ts |-> s.start[1], words |-> s.buffer]) ELSE s.cues
        Read(s, line) ==
            CASE line.is = "time" -> [cues |-> Flush(s), start |-> <<line.at>>, buffer |-> <<>>]
              [] line.is \in {"bad_time", "blank"} ->
                    [cues |-> Flush(s), start |-> <<>>, buffer |-> <<>>]
              [] line.is = "words" /\ s.start # <<>> -> [s EXCEPT !.buffer = @ \o line.words]
              [] OTHER -> s
        upto[n \in 0..Len(lines)] ==
            IF n = 0 THEN [cues |-> <<>>, start |-> <<>>, buffer |-> <<>>]
            ELSE Read(upto[n - 1], lines[n])
    IN  Flush(upto[Len(lines)])

\* dedupe: each cue adds what it does not repeat of the end of what was read so far.
Dedupe(cues) ==
    LET Overlap(words, seen) ==
            LET n == {n \in 0..Lesser(Len(words), Len(seen)) :
                         SubSeq(seen, Len(seen) - n + 1, Len(seen)) = SubSeq(words, 1, n)}
            IN  CHOOSE m \in n : \A k \in n : k <= m
        Recent(s) == SubSeq(s, Greater(1, Len(s) - Memory + 1), Len(s))
        Read(s, cue) ==
            LET fresh == SubSeq(cue.words, Overlap(cue.words, s.seen) + 1, Len(cue.words))
            IN  IF fresh = <<>> THEN s
                ELSE [out |-> Append(s.out, [ts |-> cue.ts, words |-> fresh]),
                      seen |-> Recent(s.seen \o fresh)]
        upto[n \in 0..Len(cues)] ==
            IF n = 0 THEN [out |-> <<>>, seen |-> <<>>] ELSE Read(upto[n - 1], cues[n])
    IN  upto[Len(cues)].out

\* window: what was said around a moment, both ends included.
Around(stream, at, width) ==
    LET near == At(stream, {i \in DOMAIN stream : stream[i].ts \in at - width \div 2..at + width \div 2})
    IN  FlattenSeq([i \in DOMAIN near |-> near[i].words])

\* AudioHandler._windows: a row for every window in which something was said, or one row
\* named after the file.
AudioRows(stream, duration, tagged) ==
    LET starts == {w * Step : w \in 0..(Greater(duration, Step) - 1) \div Step}
        Row(at) == [from |-> at, to |-> Lesser(at + Step, duration), says |-> "words",
                    label |-> "sidecar", text |-> Around(stream, at + Step \div 2, Step)]
        said == InOrder({at \in starts : Row(at).text # <<>>})
        whole == [from |-> 0, to |-> duration, label |-> "filename", text |-> <<>>,
                  says |-> IF tagged THEN "tags" ELSE "filename"]
    IN  IF said = <<>> THEN <<whole>> ELSE [i \in DOMAIN said |-> Row(said[i])]

\* PdfHandler.extract: a row for every page that renders, whatever its text layer.
PdfRows(pages, texts) ==
    [rows |-> [i \in 1..pages |-> IF i <= Len(texts) /\ texts[i] THEN "pdf-text" ELSE "filename"],
     scan |-> \A i \in 1..pages : i > Len(texts) \/ ~texts[i]]

WordCalls ==
    LET Line == {[is |-> "time", at |-> t] : t \in 0..1} \cup {[is |-> "words", words |-> <<w>>] : w \in 1..2}
                \cup {[is |-> k] : k \in {"bad_time", "blank", "number"}}
        Words == (UNION {[1..n -> 1..2] : n \in 1..2}) \cup {<<1, 2, 3>>, <<2, 3>>, <<3, 4>>, <<2, 3, 4>>}
        Stream == {s \in UNION {[1..n -> [ts : 0..5, words : {<<1>>}]] : n \in 0..2} :
                      \A i, j \in DOMAIN s : i < j => s[i].ts <= s[j].ts}
    IN  [op : {"parse"}, lines : UNION {[1..n -> Line] : n \in 1..4}]
        \cup [op : {"dedupe"}, cues : {[i \in DOMAIN w |-> [ts |-> i, words |-> w[i]]] :
                                          w \in UNION {[1..n -> Words] : n \in 1..3}}]
        \cup [op : {"audio_rows"}, stream : Stream, duration : 0..5, tagged : BOOLEAN]
        \cup [op : {"pdf"}, pages : 1..3, texts : UNION {[1..n -> BOOLEAN] : n \in 0..3}]

AnswerWords ==
    \/ Reply("parse", [cues |-> Parse(call.lines)])
    \/ Reply("dedupe", [stream |-> Dedupe(call.cues)])
    \/ Reply("audio_rows", [rows |-> AudioRows(call.stream, call.duration, call.tagged)])
    \/ Reply("pdf", PdfRows(call.pages, call.texts))

--------------------------------------------------------------------------
(* A survey of a folder. *)

\* REQUIREMENTS, of two kinds; a heic is an image that needs a plugin besides.
Needs == [image |-> {"pillow"}, video |-> {"ffmpeg", "pillow"}]
KindOf(file) == IF file = "heic" THEN "image" ELSE file

\* readiness_for and preflight.
Decodes(kind, present) == Needs[kind] \subseteq present

\* scan: the files as they are met, up to a limit; nothing is met behind a door that is closed.
Survey(c) ==
    LET met == IF c.root \in {"there", "part"} THEN SubSeq(c.files, 1, Lesser(c.max, Len(c.files)))
               ELSE <<>>
        Count(T) == Cardinality({i \in DOMAIN met : met[i] \in T})
        Of(kind) == Count({f \in {"image", "heic", "video"} : KindOf(f) = kind})
        present == {k \in {"image", "video"} : Of(k) > 0}
        found == present \cap c.wanted
        short == {k \in found : ~Decodes(k, c.present)}
        truncated == Len(met) >= c.max
    IN  [readable |-> CASE c.root = "remote" -> "unknown" [] c.root = "absent" -> "no" [] OTHER -> "yes",
         found |-> [k \in found |-> Of(k)], excluded |-> [k \in present \ found |-> Of(k)],
         unsupported |-> Count({"other"}), total |-> Len(met), truncated |-> truncated,
         ingestable |-> SumOf(found \ short, Of),
         warned |-> short \cup {"heic" : x \in {h \in {c.heif} : ~h /\ Count({"heic"}) > 0
                                                              /\ "image" \in c.wanted}}
                    \cup {"unreadable" : x \in {c.root} \cap {"closed", "part"}},
         note |-> IF c.root \in {"remote", "absent"} THEN c.root
                  ELSE IF truncated THEN "a_floor"
                  ELSE IF found = {} THEN "nothing"
                  ELSE "fine"]

SurveyCalls ==
    [op : {"survey"}, root : {"there", "part", "closed", "absent", "remote"}, max : 1..3, heif : BOOLEAN,
     files : UNION {[1..n -> {"image", "heic", "video", "other"}] : n \in 0..4},
     wanted : SUBSET {"image", "video"}, present : SUBSET {"pillow", "ffmpeg"}]

AnswerSurvey == Reply("survey", Survey(call))

--------------------------------------------------------------------------
(* Properties *)

MediaCalls == PostCalls \cup EmbedCalls \cup MatchCalls \cup VideoCalls \cup WordCalls \cup SurveyCalls
AnswerMedia == AnswerEmbed \/ AnswerMatch \/ AnswerVideo \/ AnswerWords \/ AnswerSurvey

\* A request ends with an answer, with a refusal that is final, or with all its attempts
\* spent; what the caller may try again is what was refused for now, and a server that says
\* when is waited for, up to a limit.
RetriesEnd ==
    Answered("post") =>
        LET last == call.answers[answer.attempts]
        IN  /\ \A i \in 1..answer.attempts - 1 : call.answers[i].was \in {"busy", "unreachable"}
            /\ (answer.raised = "nothing") = (last.was = "fine")
            /\ answer.retryable /\ last.was # "dated" => answer.attempts = MaxAttempts
            /\ \A i \in DOMAIN answer.waits :
                  call.answers[i].after # <<>> =>
                      answer.waits[i] >= Lesser(MaxWait, call.answers[i].after[1])

\* Every item is in one request, in order, and no request that holds several is over the
\* limit; when as many vectors come back as there are items, each is its item's, whatever
\* order the service answered in; a column is all pictures or all words.
VectorsAreTheirItems ==
    /\ Answered("embed") =>
          /\ FlattenSeq(answer.requests) = [i \in DOMAIN call.sizes |-> i]
          /\ \A r \in ToSet(answer.requests) :
                Len(r) \in 1..MaxItems
                /\ (Len(r) > 1 => SumOf(DOMAIN r, LAMBDA i : call.sizes[r[i]]) <= MaxBytes)
          /\ Len(answer.vectors) = Len(call.sizes) =>
                answer.vectors = [i \in DOMAIN call.sizes |-> i]
    /\ Answered("column") =>
          \A i, j \in DOMAIN answer.vectors :
              LET a == answer.vectors[i] b == answer.vectors[j]
              IN  a # <<>> => a[2] = i /\ (b # <<>> => a[1] = b[1])

\* A choice is honoured or nothing is used; left to choose, a backend that sees images is
\* taken if there is one.  A question is embedded for a table only by a model of the name the
\* table records, and a refusal says which that was.
EmbeddersMatch ==
    Answered("match") =>
        LET r == answer.resolved
        IN  /\ call.e.backend # "auto" => r.backend \in {call.e.backend, "none"}
            /\ call.e.backend = "auto" =>
                  /\ r.images = (call.e.torch \/ (call.e.url /\ call.e.key /\ call.e.model # "unset"))
                  /\ call.e.ollama => r # NoBackend
            /\ answer.available =>
                  call.identity # <<>> /\ (call.identity[1].backend # "siglip-local" =>
                                              answer.with.model = call.identity[1].model)
            /\ call.identity # <<>> /\ call.identity[1].backend # "none" => answer.says = call.identity

\* The first frame is kept and so are the largest changes, in order and within the budget;
\* a moment is played from the segment that holds it, at its place in it; the segments tile
\* the film and none is a runt beside one that is not.
PicturesPlay ==
    Answered("video_rows") =>
        LET rows == answer.rows
            chunks == answer.chunks
            frames == {rows[i].ts \div Sampling : i \in DOMAIN rows}
            Change(f) == call.deltas[f]
        IN  /\ rows[1].ts = 0 /\ \A i \in 1..Len(rows) - 1 : rows[i].ts < rows[i + 1].ts
            /\ Len(rows) <= Greater(1, call.budget)
            /\ \A f \in frames \ {0} : Change(f) >= MinDelta
            /\ \A f \in DOMAIN call.deltas \ frames :
                  \/ Change(f) < MinDelta
                  \/ Len(rows) = call.budget /\ \A g \in frames \ {0} : Change(g) >= Change(f)
            /\ \A i \in 1..Len(chunks) - 1 : chunks[i].to = chunks[i + 1].from
            /\ chunks[Len(chunks)].size >= Runt \/ Len(chunks) = 1 \/ call.rate * MaxSeconds < Runt
            /\ call.start = 0 => \A r \in ToSet(rows) :
                  r.chunk.from <= r.ts /\ r.ts < r.chunk.to /\ r.offset = r.ts - r.chunk.from

\* Words are kept under their own time and read once: after every cue the transcript ends
\* with what the cue shows.  Whatever is said inside a recording is in a row whose span it
\* is in; a row's span is inside the recording, and a page always has a row.
WordsAreKept ==
    /\ Answered("parse") =>
          LET Words(x) == FlattenSeq([i \in DOMAIN x |-> x[i].words])
          IN  \A i \in DOMAIN call.lines : call.lines[i].is = "words" =>
                  LET timed == {j \in 1..i - 1 : call.lines[j].is = "time"
                                   /\ \A k \in j + 1..i : call.lines[k].is \in {"words", "number"}}
                  IN  (timed # {}) = (\E c \in ToSet(answer.cues), j \in timed :
                          c.ts = call.lines[j].at /\ call.lines[i].words[1] \in ToSet(c.words))
    /\ Answered("dedupe") =>
          \A n \in DOMAIN call.cues :
              LET read == Dedupe(SubSeq(call.cues, 1, n))
                  text == FlattenSeq([i \in DOMAIN read |-> read[i].words])
                  Shown(w) == \A i \in 1..Len(w) - 1 : w[i + 1] = w[i] + 1
                  first == call.cues[1].words[1]
              IN  /\ IsSuffix(call.cues[n].words, text)
                  /\ /\ \A i \in 1..n : Shown(call.cues[i].words)
                     /\ \A i \in 1..n - 1 :
                           /\ call.cues[i + 1].words[1] \in first..Last(call.cues[i].words) + 1
                           /\ Last(call.cues[i].words) <= Last(call.cues[i + 1].words)
                     => text = [i \in 1..Last(call.cues[n].words) - first + 1 |-> first + i - 1]
    /\ Answered("audio_rows") =>
          LET rows == answer.rows
          IN  /\ \A i \in 1..Len(rows) - 1 : rows[i].to <= rows[i + 1].from
              /\ \A r \in ToSet(rows) : 0 <= r.from /\ r.from <= r.to /\ r.to <= call.duration
              /\ \A cue \in ToSet(call.stream) : cue.ts <= call.duration =>
                    \E r \in ToSet(rows) : r.label = "sidecar" /\ cue.ts \in r.from..r.from + Step
    /\ Answered("pdf") =>
          /\ Len(answer.rows) = call.pages
          /\ answer.scan = ("pdf-text" \notin ToSet(answer.rows))

\* Every file met is found, left out or of no use, once; a count that is no total says so,
\* and every kind that was asked for and cannot be decoded is named.
SurveysAddUp ==
    Answered("survey") =>
        LET Of(f) == SumOf(DOMAIN f, LAMBDA k : f[k])
        IN  /\ Of(answer.found) + Of(answer.excluded) + answer.unsupported = answer.total
            /\ answer.total < Len(call.files) =>
                  answer.truncated \/ answer.readable # "yes" \/ "unreadable" \in answer.warned
            /\ answer.truncated => answer.note = "a_floor"
            /\ answer.ingestable < Of(answer.found) =>
                  \E k \in DOMAIN answer.found : k \in answer.warned
            /\ answer.note = "nothing" => answer.ingestable = 0

\* What goes into a table is what was found, seen and said, and what comes of it can be asked.
MediaIsHonest ==
    RetriesEnd /\ VectorsAreTheirItems /\ EmbeddersMatch /\ PicturesPlay /\ WordsAreKept /\ SurveysAddUp

--------------------------------------------------------------------------
(* What the code says of itself and does not do. *)

\* "the identity written into the table at ingest is checked before anything is embedded"
\* (config.py:205): of backend, model and dimension, the model is.
SpacesAgree ==
    Answered("match") /\ answer.available =>
        /\ answer.with.backend = call.identity[1].backend
        /\ answer.with.model = call.identity[1].model

\* "a table that cannot answer says so" (routes/ingest.py:234): without torch the local
\* model is offered, and fails when it is asked.
OfferedCanEmbed ==
    Answered("match") /\ answer.available /\ answer.with.backend = "siglip-local" => call.e.torch

\* "A backend answered, and the answer was no" (base.py:69) is an EmbedderError, except when
\* the answer names a date.
RefusalsAreEmbedderErrors == Answered("post") => answer.raised # "ValueError"

\* "Which stored segment holds this moment" (video.py:130): the last, for a film whose first
\* segment starts late.
EveryMomentPlays ==
    Answered("video_rows") =>
        \A r \in ToSet(answer.rows) : r.ts < answer.chunks[1].to => r.chunk = answer.chunks[1]

\* "then the container's own tags, then the filename" (audio.py:13): both are labelled as the
\* filename.
TextSourceIsWhereItCameFrom ==
    Answered("audio_rows") =>
        \A r \in ToSet(answer.rows) : r.label = "filename" => r.says = "filename"

\* "it will not report an unreadable path as an empty one" (plan.py:16): a folder that exists
\* and cannot be listed is readable, and holds nothing.
UnreadableIsNotEmpty ==
    Answered("survey") /\ call.root = "closed" => answer.readable # "yes" \/ answer.note # "nothing"

\* "Files this build could actually decode" (plan.py:90): a heic without its plugin counts.
IngestableCanBeDecoded ==
    Answered("survey") /\ ~call.heif /\ call.wanted = {"image"} =>
        answer.ingestable <= Cardinality({i \in DOMAIN call.files : call.files[i] = "image"})
====
