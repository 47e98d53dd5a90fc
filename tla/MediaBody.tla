------------------------------ MODULE MediaBody ------------------------------
(***************************************************************************)
(* The body of an upstream response: MediaResponse.iter_bytes and          *)
(* _iter_chunked of network/media_client.py, and the check of the first    *)
(* bytes of a preview in iter_validated_body.  The upstream sends what it  *)
(* likes: each step is what one read returns.  A unit stands for a byte.   *)
(* Whoever iterates may stop after any step.                               *)
(***************************************************************************)
EXTENDS Integers

CONSTANTS
  MaxBytes,    (* max_bytes of the client                                  *)
  CallerMax,   (* limits of callers: max_bytes of iter_bytes, or none      *)
  ChunkSize,   (* the most one read asks for                               *)
  PrefixSize   (* the bytes a preview is recognised by                     *)

ASSUME BodyAssumption ==
  /\ MaxBytes \in Nat
  /\ CallerMax \subseteq Nat
  /\ ChunkSize \in Nat \ {0}
  /\ PrefixSize \in Nat

VARIABLE body

Framings == {"length", "chunked", "close"}

(* state: the read that comes next.  left: what is left of the declared    *)
(* length or of the chunk.  announced: the length, or the chunks so far.   *)
(* taken: units read.  passed: units handed on.  signed: the content is of *)
(* the declared type.                                                      *)
NoBody ==
  [state |-> "none", framing |-> "close", preview |-> FALSE, limit |-> 0,
   left |-> 0, announced |-> 0, taken |-> 0, passed |-> 0, signed |-> TRUE]

Unbounded == body.framing = "close"
AtMost(n) == IF n < ChunkSize THEN n ELSE ChunkSize

(* The signature has been checked before.                                  *)
Validated == ~body.preview \/ body.passed > 0

(* content_length and iter_bytes: a declared length must be within the     *)
(* limit of the client and of the caller.                                  *)
DeclaredTooLong(declared, limit) == declared > MaxBytes \/ declared > limit

Fail(b) == [b EXCEPT !.state = "failed"]

(* What becomes of units just read: a preview is held back until there is  *)
(* enough to recognise it by.                                              *)
Passed(b) ==
  IF Validated THEN [b EXCEPT !.passed = b.taken]
  ELSE IF b.taken < PrefixSize THEN b
  ELSE IF b.signed THEN [b EXCEPT !.passed = b.taken]
  ELSE Fail(b)

(* The end of the body; a short preview is checked as a whole, and an      *)
(* empty one is of no type.                                                *)
Finished(b) ==
  IF b.preview /\ b.passed = 0 /\ (b.taken = 0 \/ ~b.signed) THEN Fail(b)
  ELSE [b EXCEPT !.state = "done", !.passed = b.taken]

-----------------------------------------------------------------------------

(* The status or the content type is not acceptable.                       *)
BodyRefused ==
  /\ body.state = "none"
  /\ body' = Fail(body)

(* iter_bytes: a declared length above the limit is refused before the     *)
(* first read, and an empty body ends without one.                         *)
BodyBegins(framing, declared, limit, preview, signed) ==
  /\ body.state = "none"
  /\ LET start ==
           [NoBody EXCEPT !.framing = framing, !.preview = preview,
                          !.limit = limit, !.signed = signed]
     IN
     body' =
       IF framing = "chunked" THEN [start EXCEPT !.state = "size"]
       ELSE IF framing = "close" THEN [start EXCEPT !.state = "read"]
       ELSE IF DeclaredTooLong(declared, limit) THEN Fail(start)
       ELSE IF declared = 0 THEN Finished(start)
       ELSE [start EXCEPT !.state = "read", !.left = declared, !.announced = declared]

(* One read returns n units.                                               *)
ReadSome(n) ==
  /\ body.state = "read"
  /\ n \in 1..(IF Unbounded THEN ChunkSize ELSE AtMost(body.left))
  /\ LET more ==
           [body EXCEPT !.taken = @ + n, !.left = IF Unbounded THEN @ ELSE @ - n]
         next == Passed(more)
     IN
     body' = IF body.taken + n > body.limit THEN Fail(body)
             ELSE IF next.state = "read" /\ ~Unbounded /\ next.left = 0
             THEN Finished(next)
             ELSE next

(* Faulty variant of ReadEof: the end of the stream is the end of the body.*)
ReadEofAnywhere ==
  /\ body.state = "read"
  /\ body' = Finished(body)

(* The stream ends.                                                        *)
ReadEof ==
  /\ body.state = "read"
  /\ body' = IF Unbounded THEN Finished(body)
             ELSE [body EXCEPT !.state = "truncated"]

(* The line before a chunk announces k units; none, that it was the last.  *)
SizeLine(k) ==
  /\ body.state = "size"
  /\ body' =
       IF k = 0 THEN [body EXCEPT !.state = "trailer"]
       ELSE IF body.taken + k > body.limit THEN Fail(body)
       ELSE [body EXCEPT !.state = "data", !.left = k, !.announced = @ + k]

(* readexactly, of the chunk or of as much as one read may ask for         *)
ChunkData ==
  /\ body.state = "data"
  /\ LET n == AtMost(body.left)
         next == Passed([body EXCEPT !.taken = @ + n, !.left = @ - n])
     IN
     body' = IF next.state = "data" /\ next.left = 0
             THEN [next EXCEPT !.state = "crlf"] ELSE next

ChunkEnds ==
  /\ body.state = "crlf"
  /\ body' = [body EXCEPT !.state = "size"]

(* The blank line after the trailers; a trailer itself changes nothing.    *)
TrailersEnd ==
  /\ body.state = "trailer"
  /\ body' = Finished(body)

(* A malformed line, an end of the stream inside the framing, trailers     *)
(* that are too long, a timeout or an error of the connection.             *)
ReadFails ==
  /\ body.state \in {"read", "size", "data", "crlf", "trailer"}
  /\ body' = Fail(body)

BodyReads ==
  \/ \E n \in 1..ChunkSize : ReadSome(n)
  \/ ReadEof
  \/ \E k \in 0..(MaxBytes + 1) : SizeLine(k)
  \/ ChunkData
  \/ ChunkEnds
  \/ TrailersEnd
  \/ ReadFails

BodyNext ==
  \/ \E framing \in Framings, declared \in 0..(MaxBytes + 1),
        callerMax \in CallerMax \cup {MaxBytes}, preview, signed \in BOOLEAN :
       BodyBegins(framing, declared,
                  IF callerMax < MaxBytes THEN callerMax ELSE MaxBytes,
                  preview, signed)
  \/ BodyRefused
  \/ BodyReads

-----------------------------------------------------------------------------

(* A body is handed on within the limit of the client and of the caller.   *)
(* It ends normally only when it is whole: as long as declared, or all     *)
(* that the chunks announced.  It counts as truncated, which is what a     *)
(* download resumes, only if a length was declared and is not reached.  Of *)
(* a preview nothing is handed on unless its first bytes are of the type   *)
(* it claims, however they are split over reads (network/media_client.py   *)
(* iter_bytes, _iter_chunked, iter_validated_body; OPERATIONS.md line 325: *)
(* neither chunked nor unknown lengths are resumed).                       *)
BodyIsWhole ==
  /\ body.passed <= body.taken
  /\ body.taken <= body.limit /\ body.limit <= MaxBytes
  /\ ~Unbounded => body.taken <= body.announced
  /\ body.state = "done" =>
       /\ body.passed = body.taken
       /\ ~Unbounded => body.taken = body.announced
  /\ body.state = "truncated" =>
       body.framing = "length" /\ body.taken < body.announced
  /\ body.preview /\ body.passed > 0 => body.signed
=============================================================================
