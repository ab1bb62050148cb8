-------------------------- MODULE StreamingMatcher --------------------------
(***************************************************************************)
(* streaming/matcher.rs: an Aho-Corasick search over a response that       *)
(* arrives in chunks.  Each chunk is scanned together with the last        *)
(* max_pattern_len - 1 retained bytes, so that a match spanning the seam   *)
(* is seen without rescanning what was already scanned.                    *)
(*                                                                         *)
(* The two branches of `feed` (empty buffer, carry-over) differ only in    *)
(* copying: both scan Trailing(buffer, Seam) \o chunk and keep the last    *)
(* max_buffer bytes, which is how the model states them.                   *)
(***************************************************************************)
EXTENDS Integers, Sequences

CONSTANTS
    Byte,          \* Bytes up to ASCII case, the unit the automaton compares.
    Patterns,      \* The automaton's patterns, a sequence indexed by pattern id.
    MaxPatternLen, \* automaton.max_pattern_len().
    MaxBuffer,     \* The max_buffer the caller chose; any value is accepted.
    Overlapping,   \* Whether the automaton can run an overlapping search.
    Chunks,        \* The chunks the network may deliver.
    MaxStream      \* Bound on the number of bytes delivered.

\* An empty pattern would match everywhere; automata with one are left out.
ASSUME PatternsAssumption == Patterns \in Seq(Seq(Byte) \ {<<>>})
ASSUME ChunksAssumption   == Chunks \subseteq Seq(Byte)
ASSUME MaxBufferAssumption == MaxBuffer \in Nat
ASSUME OverlappingAssumption == Overlapping \in BOOLEAN
ASSUME MaxPatternLenAssumption ==
    /\ MaxPatternLen \in Nat
    /\ \A i \in DOMAIN Patterns : Len(Patterns[i]) <= MaxPatternLen
    /\ MaxPatternLen # 0 => \E i \in DOMAIN Patterns : Len(Patterns[i]) = MaxPatternLen

VARIABLES
    buffer,           \* The retained tail of the stream.
    matched_patterns, \* Pattern ids that have matched (a set: order is not used).
    can_stop_early,   \* Some pattern has matched.
    bytes_processed,  \* Bytes fed so far.
    result,           \* What the last `feed` returned.
    stream            \* History: every byte fed so far.

vars == <<buffer, matched_patterns, can_stop_early, bytes_processed, result, stream>>

\* The specification of a search over the whole stream.
Search == INSTANCE StreamSearch WITH matched <- matched_patterns

NoResult == [kind |-> "None"]

-----------------------------------------------------------------------------
\* A slip: keep the first bytes of the buffer in place of the last.
TrailingKeepsHead(s, n) == IF Len(s) <= n THEN s ELSE SubSeq(s, 1, n)

\* The last n elements of s, or all of s when it is shorter.
Trailing(s, n) == IF Len(s) <= n THEN s ELSE SubSeq(s, Len(s) - n + 1, Len(s))

\* max_pattern_len().saturating_sub(1)
Seam == IF MaxPatternLen = 0 THEN 0 ELSE MaxPatternLen - 1

\* Slips: report pattern ids from 0; scan with a seam that is a byte short, or
\* with none; forget the older bytes; answer MatchFound for new matches only.
RecordedFromZero(bytes) ==
    {{i - 1 : i \in Search!Occurring(bytes)}}
ShortWindow(chunk) ==
    (IF Seam = 0 THEN <<>> ELSE Trailing(buffer, Seam - 1)) \o chunk
ChunkWindow(chunk)    == chunk
RetainedChunk(chunk)  == Trailing(chunk, MaxBuffer)
OnNewMatchesOnly ==
    IF matched_patterns' # matched_patterns THEN
        [kind |-> "MatchFound", pattern_indices |-> matched_patterns',
         bytes_processed |-> bytes_processed']
    ELSE IF Len(buffer') >= MaxBuffer THEN
        [kind |-> "BufferFull", pattern_indices |-> matched_patterns',
         bytes_processed |-> bytes_processed']
    ELSE [kind |-> "NeedMore"]

\* The sets of pattern ids one pass over `bytes` may record.  The overlapping
\* search reports every occurrence.  find_iter, the fallback, skips matches that
\* overlap a reported one: all it guarantees is real matches, and at least one
\* when there is any.
Recorded(bytes) ==
    LET occurring == Search!Occurring(bytes)
    IN  IF Overlapping
        THEN {occurring}
        ELSE {S \in SUBSET occurring : occurring # {} => S # {}}

\* The bytes one feed scans.
ScanWindow(chunk) == Trailing(buffer, Seam) \o chunk

\* What is left of the buffer after a feed.
Retained(chunk) == Trailing(buffer \o chunk, MaxBuffer)

FeedResult ==
    IF can_stop_early' THEN
        [kind |-> "MatchFound", pattern_indices |-> matched_patterns',
         bytes_processed |-> bytes_processed']
    ELSE IF Len(buffer') >= MaxBuffer THEN
        [kind |-> "BufferFull", pattern_indices |-> matched_patterns',
         bytes_processed |-> bytes_processed']
    ELSE [kind |-> "NeedMore"]

-----------------------------------------------------------------------------
Init ==
    /\ buffer           = <<>>
    /\ matched_patterns = {}
    /\ can_stop_early   = FALSE
    /\ bytes_processed  = 0
    /\ result           = NoResult
    /\ stream           = <<>>

Feed(chunk) ==
    /\ bytes_processed' = bytes_processed + Len(chunk)
    /\ \E recorded \in Recorded(ScanWindow(chunk)) :
          /\ matched_patterns' = matched_patterns \cup recorded
          /\ can_stop_early'   = (can_stop_early \/ ~(recorded \subseteq matched_patterns))
    /\ buffer' = Retained(chunk)
    /\ result' = FeedResult
    /\ stream' = stream \o chunk

Next ==
    \E chunk \in Chunks :
        /\ Len(stream) + Len(chunk) <= MaxStream
        /\ Feed(chunk)

Spec == Init /\ [][Next]_vars

\* bytes_saved(total_content_length)
BytesSaved(total) ==
    IF can_stop_early /\ total > bytes_processed THEN total - bytes_processed ELSE 0

-----------------------------------------------------------------------------
FeedResults ==
    {NoResult, [kind |-> "NeedMore"]} \cup
    [kind : {"MatchFound", "BufferFull"},
     pattern_indices : SUBSET DOMAIN Patterns, bytes_processed : Nat]

\* The types of the matcher's fields and of what feed returns.
TypeOK ==
    /\ buffer \in Seq(Byte)
    /\ matched_patterns \in SUBSET DOMAIN Patterns
    /\ can_stop_early \in BOOLEAN
    /\ bytes_processed \in Nat
    /\ result \in FeedResults
    /\ stream \in Seq(Byte)

\* The retained buffer is exactly the last max_buffer bytes of the response, so
\* into_buffer returns recent content and memory stays bounded.
BufferIsTrailingWindow == buffer = Trailing(stream, MaxBuffer)

\* The patterns that fit in the buffer but for a last byte.  The seam is cut to
\* the buffer when the caller chose a smaller one, and longer patterns may be
\* missed; these may not.
Carried == {i \in DOMAIN Patterns : Len(Patterns[i]) <= MaxBuffer + 1}

\* A buffer of at least Seam bytes carries every pattern over.
SeamFits == MaxBuffer >= Seam

\* No false positive: every reported pattern occurs in the bytes received.
Precision == matched_patterns \subseteq Search!Occurring(stream)

\* The decision to cancel the download is taken when some pattern has occurred,
\* and only then: wherever the bytes were cut into chunks, unless every pattern
\* that occurred is too long for the buffer.  This holds for the non-overlapping
\* fallback too.
CancelIffOccurred ==
    /\ can_stop_early => Search!Occurring(stream) # {}
    /\ Search!Occurring(stream) \cap Carried # {} => can_stop_early

\* No false negative, whatever the chunking: of the patterns that the buffer
\* carries over, those are reported that a scan of the whole response would
\* report, also when the buffer is smaller than the seam.
ChunkingIndependent ==
    Search!Occurring(stream) \cap Carried \subseteq matched_patterns

\* The promise for all patterns, when the buffer holds the seam, as a refinement:
\* every feed is one step of the search over the whole stream.
ImplementsSearch == Search!Spec

\* Savings are claimed only after a real match, and they are the bytes of the
\* response that were not fetched.
SavingsAreEarned ==
    \A total \in 0..MaxStream + 1 :
        BytesSaved(total) > 0 =>
            /\ Search!Occurring(stream) # {}
            /\ total = Len(stream) + BytesSaved(total)

Rank(kind) == CASE kind = "None"       -> 0
                [] kind = "NeedMore"   -> 1
                [] kind = "BufferFull" -> 2
                [] kind = "MatchFound" -> 3

\* A caller that keeps draining the stream sees the results only advance, from
\* NeedMore to BufferFull to MatchFound, and the reported ids only grow.
ResultsOnlyAdvance ==
    [][/\ Rank(result.kind) <= Rank(result'.kind)
       /\ matched_patterns \subseteq matched_patterns']_vars
=============================================================================
