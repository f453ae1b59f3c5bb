------------------------------ MODULE ByteRange ------------------------------
(***************************************************************************)
(* Byte ranges and previews of UTF-8 text (read() and preview() in         *)
(* tools/__init__.py): a model that asks for pages of a file by offset and *)
(* limit, following next_offset or jumping anywhere, and the bounded       *)
(* preview that read() shows of a page or of the whole file.               *)
(*                                                                         *)
(* A text is its size and the offsets at which characters begin; a byte is *)
(* known by its offset in the file, bytes by a sequence of offsets.        *)
(***************************************************************************)
EXTENDS Naturals, Sequences, FiniteSets, FiniteSetsExt, SequencesExt

CONSTANTS
    MaxSize,        \* bound: bytes of a file
    Limits,         \* the limits a read asks for, 4 or more by the tool's schema
    PreviewLimit,   \* PREVIEW_LIMIT
    Headers,        \* lengths of the line that names the file
    Marker          \* length of the line that stands for what is left out

ASSUME RangeAssumption ==
    /\ MaxSize \in Nat /\ PreviewLimit \in Nat /\ Headers \subseteq Nat /\ Marker \in Nat
    /\ Limits \subseteq Nat \ 0..3
    /\ PreviewLimit > 6   \* two windows trimmed to whole characters exceed one
    /\ \A h \in Headers : h + Marker < PreviewLimit

VARIABLES
    text,           \* the file
    header,         \* the length of the header of its previews
    base,           \* where the reader began to follow next_offset
    offset,         \* next_offset of the last page
    got,            \* the pages since then, joined
    page,           \* the last page: what was asked, where it begins, its bytes
    shown           \* the preview of the last reply, and what it is a preview of

vars == <<text, header, base, offset, got, page, shown>>

\* Well-formed UTF-8: characters of 1 to 4 bytes from the first byte on.
Texts ==
    {t \in UNION {[size : {n}, starts : SUBSET (0..(n - 1))] : n \in 0..MaxSize} :
        /\ t.size > 0 => 0 \in t.starts
        /\ \A b \in t.starts : \E k \in 1..4 : b + k \in t.starts \cup {t.size}}

Boundary(b) == b \in text.starts \cup {text.size}

\* The first byte of the character b belongs to, and the byte after its last.
First(b) == Max({c \in text.starts : c <= b})

Following(b) == Min({c \in text.starts \cup {text.size} : c > b})

Bytes(from, to) == [n \in 1..(to - from) |-> from + n - 1]

\* The bytes at the given places, in their order.
Selected(bytes, places) ==
    LET Place(n) == CHOOSE k \in places : Cardinality({l \in places : l <= k}) = n
    IN  [n \in 1..Cardinality(places) |-> bytes[Place(n)]]

\* decode("utf-8", errors="ignore"): the characters cut off at either end of
\* the bytes are dropped.
Decode(bytes) ==
    Selected(bytes, {n \in DOMAIN bytes :
        \A c \in First(bytes[n])..(Following(bytes[n]) - 1) : \E m \in DOMAIN bytes : bytes[m] = c})

-----------------------------------------------------------------------------
(* preview() *)

\* Faulty: the marker is left out of the account.
PreviewOverBudget(raw) ==
    IF header + Len(raw) <= PreviewLimit
    THEN [length |-> header + Len(raw), head |-> raw, tail |-> <<>>, cut |-> FALSE]
    ELSE LET budget == PreviewLimit - header
             half == budget \div 2
             head == Decode(SubSeq(raw, 1, half))
             tail == Decode(SubSeq(raw, Len(raw) - (budget - half) + 1, Len(raw)))
         IN  [length |-> header + Len(head) + Marker + Len(tail),
              head |-> head, tail |-> tail, cut |-> TRUE]

Preview(raw) ==
    IF header + Len(raw) <= PreviewLimit
    THEN [length |-> header + Len(raw), head |-> raw, tail |-> <<>>, cut |-> FALSE]
    ELSE LET budget == PreviewLimit - header - Marker
             half == budget \div 2
             head == Decode(SubSeq(raw, 1, half))
             tail == Decode(SubSeq(raw, Len(raw) - (budget - half) + 1, Len(raw)))
         IN  [length |-> header + Len(head) + Marker + Len(tail),
              head |-> head, tail |-> tail, cut |-> TRUE]

\* read() in full mode keeps the first and the last PREVIEW_LIMIT bytes.
Edges ==
    IF text.size <= PreviewLimit THEN Bytes(0, text.size)
    ELSE Decode(Bytes(0, PreviewLimit)) \o Decode(Bytes(text.size - PreviewLimit, text.size))

-----------------------------------------------------------------------------
(* A range: moved back to the start of its character, cut after its last. *)

\* Faulty: the offset is taken as it is.
StartAsAsked(asked) == asked

StartOf(asked) ==
    IF asked = text.size THEN asked
    ELSE LET window == IF asked < 3 THEN 0 ELSE asked - 3
         IN  Max({b \in window..asked : b = window \/ b \in text.starts})

Cut(start, limit) ==
    Decode(Bytes(start, IF start + limit < text.size THEN start + limit ELSE text.size))

\* Faulty: next_offset is what was asked for plus what came.
PageFromAsked(asked, limit) ==
    LET start == StartOf(asked)
        selected == Cut(start, limit)
        end == asked + Len(selected)
    IN  /\ page' = [asked |-> asked, limit |-> limit, start |-> start,
                    bytes |-> selected, eof |-> start + Len(selected) = text.size]
        /\ offset' = IF end < text.size THEN end ELSE text.size
        /\ shown' = [preview |-> Preview(selected), of |-> selected]
        /\ UNCHANGED <<text, header>>

Page(asked, limit) ==
    LET start == StartOf(asked)
        selected == Cut(start, limit)
        end == start + Len(selected)
    IN  /\ page' = [asked |-> asked, limit |-> limit, start |-> start,
                    bytes |-> selected, eof |-> end = text.size]
        /\ offset' = end
        /\ shown' = [preview |-> Preview(selected), of |-> selected]
        /\ UNCHANGED <<text, header>>

-----------------------------------------------------------------------------
NoPage == [asked |-> 0, limit |-> 0, start |-> 0, bytes |-> <<>>, eof |-> FALSE]

Init ==
    /\ text \in Texts /\ header \in Headers
    /\ base = 0 /\ offset = 0 /\ got = <<>>
    /\ page = NoPage
    /\ shown = [preview |-> Preview(<<>>), of |-> <<>>]

Follow(limit) ==
    /\ Page(offset, limit)
    /\ got' = got \o page'.bytes
    /\ UNCHANGED base

Jump(asked, limit) ==
    /\ Page(asked, limit)
    /\ got' = page'.bytes
    /\ base' = page'.start

ReadFull ==
    /\ shown' = [preview |-> Preview(Edges), of |-> Bytes(0, text.size)]
    /\ page' = NoPage
    /\ UNCHANGED <<text, header, base, offset, got>>

Next ==
    \/ ReadFull
    \/ \E limit \in Limits :
           \/ Follow(limit)
           \/ \E asked \in 0..text.size : Jump(asked, limit)

Spec == Init /\ [][Next]_vars

-----------------------------------------------------------------------------
(* Properties. *)

\* Pages read by following next_offset join to the file: nothing lost, nothing
\* twice, whatever the limits and wherever the reader began
\* (tools/__init__.py:262-303; test_read_ranges tries one text).
PagesJoin == got = Bytes(base, offset)

\* A page is a run of whole characters within its limit, says so when it
\* reaches the end of the file, and holds the byte that was asked for, so that
\* whoever follows next_offset gets further with every page.
PageIsText ==
    page # NoPage =>
        /\ Len(page.bytes) <= page.limit
        /\ Boundary(page.start) /\ Boundary(page.start + Len(page.bytes))
        /\ page.eof = (page.start + Len(page.bytes) = text.size)
        /\ page.asked = text.size \/ \E n \in DOMAIN page.bytes : page.bytes[n] = page.asked

\* A preview is never longer than PREVIEW_LIMIT with its header and its marker
\* (README.md:69); without a marker it is all of what was read, with one its
\* pieces are the real beginning and the real end, whole characters, and do not
\* overlap.
PreviewIsHonest ==
    LET p == shown.preview
    IN  /\ p.length <= PreviewLimit
        /\ ~p.cut => p.head = shown.of
        /\ p.cut =>
               /\ IsPrefix(p.head, shown.of) /\ IsSuffix(p.tail, shown.of)
               /\ Len(p.head) + Len(p.tail) < Len(shown.of)
               /\ Decode(p.head) = p.head /\ Decode(p.tail) = p.tail

=============================================================================
