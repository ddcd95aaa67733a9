-------------------------------- MODULE Sink --------------------------------
(***************************************************************************)
(* meta.Sink (meta/sink.go): bytes go in through Write, an encoding comes  *)
(* out at a buffer, a writer, standard output or a file.  Every method     *)
(* holds the sink's mutex for its whole body, so each is one step.  The    *)
(* caller's bytes are numbered in the order of its calls; the destination  *)
(* is the sequence of the characters that arrived there.                   *)
(*                                                                         *)
(* External: the writer, which may fail after any prefix of what it was    *)
(* given, and encoding/base64, whose stream encoder writes whole groups of *)
(* three bytes, keeps the rest until Close and repeats its first error.    *)
(***************************************************************************)
EXTENDS Naturals, Sequences, SequencesExt

CONSTANTS Kinds,     \* of "bytes", "writer", "file", "stdout"
          MaxChunk,  \* bound: bytes of one Write
          MaxBytes   \* bound: bytes of all Writes

Encodings == {"raw", "hex", "base64"}
OldContent == <<"old">>   \* what a file held before

VARIABLES kind, enc, wrote, closed,  \* the fields of Sink
          opened,     \* file: never opened, open or closed
          pending,    \* bytes the base64 encoder keeps
          encErr,     \* the encoder's first error
          dest,       \* the characters at the destination
          sent,       \* history: bytes given to Write so far
          accepted,   \* history: bytes the counts returned by Write say were taken
          failed,     \* history: a Write was cut short by its destination
          closeErr    \* history: what Close returned

svars == <<kind, enc, wrote, closed, opened, pending, encErr, dest, sent, accepted, failed, closeErr>>

SinkTypeOK ==
    /\ kind \in Kinds /\ enc \in Encodings
    /\ {wrote, closed, encErr, failed, closeErr} \subseteq BOOLEAN
    /\ opened \in {"no", "open", "closed"}
    /\ Len(pending) < 3 /\ sent \in 0..MaxBytes

SinkInit ==
    /\ kind \in Kinds /\ enc = "raw" /\ opened = "no"
    /\ dest = (IF kind = "file" THEN OldContent ELSE <<>>)
    /\ pending = <<>> /\ sent = 0 /\ accepted = <<>>
    /\ wrote = FALSE /\ closed = FALSE /\ encErr = FALSE /\ failed = FALSE /\ closeErr = FALSE

-----------------------------------------------------------------------------
(* What each encoding makes of a sequence of bytes: a byte, two digits, or
   four characters for each group of three (the last may be shorter). *)
Hex(s) == [k \in 1..(2 * Len(s)) |-> <<s[(k + 1) \div 2], 2 - (k % 2)>>]
Group(s, g) == SubSeq(s, 3 * g - 2, IF 3 * g <= Len(s) THEN 3 * g ELSE Len(s))
Base64(s) == [k \in 1..(4 * ((Len(s) + 2) \div 3)) |-> <<Group(s, (k + 3) \div 4), 1 + ((k - 1) % 4)>>]
Encode(e, s) == IF e = "raw" THEN s ELSE IF e = "hex" THEN Hex(s) ELSE Base64(s)

Whole(s) == SubSeq(s, 1, 3 * (Len(s) \div 3))
Rest(s) == SubSeq(s, 3 * (Len(s) \div 3) + 1, Len(s))

-----------------------------------------------------------------------------
SetEncoding ==
    \E e \in Encodings :
        /\ ~wrote
        /\ enc' = e
        /\ UNCHANGED <<kind, wrote, closed, opened, pending, encErr, dest, sent, accepted, failed, closeErr>>

(* The first Write opens the file and truncates it. *)
ensureOpen ==
    IF kind = "file" /\ opened = "no" THEN opened' = "open" ELSE UNCHANGED opened
Before == IF kind = "file" /\ opened = "no" THEN <<>> ELSE dest

(* OpenFile fails: nothing was written, and the encoding may still change. *)
WriteCannotOpen ==
    /\ ~closed /\ kind = "file" /\ opened = "no"
    /\ UNCHANGED svars

Chunk(n) == [i \in 1..n |-> sent + i]

(* What reaches raw() for the chunk p: all of it, or any shorter prefix with
   an error.  Memory never fails. *)
Arrives(out, upto) ==
    /\ upto \in 0..Len(out)
    /\ kind = "bytes" => upto = Len(out)
    /\ dest' = Before \o SubSeq(out, 1, upto)
    /\ failed' = (failed \/ upto < Len(out))

WriteRaw(p) ==
    /\ enc = "raw"
    /\ \E upto \in 0..Len(p) :
        /\ Arrives(p, upto)
        /\ accepted' = accepted \o SubSeq(p, 1, upto)
    /\ UNCHANGED <<pending, encErr>>

(* A short write returns 0. *)
WriteHex(p) ==
    /\ enc = "hex"
    /\ \E upto \in 0..(2 * Len(p)) :
        /\ Arrives(Hex(p), upto)
        /\ accepted' = IF upto = 2 * Len(p) THEN accepted \o p ELSE accepted
    /\ UNCHANGED <<pending, encErr>>

WriteBase64PerChunk(p) ==
    /\ enc = "base64"
    /\ \E upto \in 0..Len(Base64(p)) :
        /\ Arrives(Base64(p), upto)
        /\ accepted' = IF upto = Len(Base64(p)) THEN accepted \o p ELSE accepted
    /\ UNCHANGED <<pending, encErr>>
(* One encoder for the whole stream. *)
WriteBase64(p) ==
    /\ enc = "base64"
    /\ \/ /\ encErr
          /\ dest' = Before
          /\ UNCHANGED <<pending, encErr, accepted, failed>>
       \/ /\ ~encErr
          /\ LET out == Base64(Whole(pending \o p)) IN
             \E upto \in 0..Len(out) :
                /\ Arrives(out, upto)
                /\ encErr' = (upto < Len(out))
                /\ accepted' = IF upto = Len(out) THEN accepted \o p ELSE accepted
                /\ pending' = Rest(pending \o p)

Write ==
    \E n \in 0..MaxChunk :
        /\ ~closed /\ sent + n <= MaxBytes
        /\ ensureOpen
        /\ wrote' = TRUE /\ sent' = sent + n
        /\ WriteRaw(Chunk(n)) \/ WriteHex(Chunk(n)) \/ WriteBase64(Chunk(n))
        /\ UNCHANGED <<kind, enc, closed, closeErr>>

(* Ends the encoding, then closes the file; either may fail, and the first
   error is returned.  Standard output and a caller's writer stay open. *)
Close ==
    /\ ~closed /\ closed' = TRUE
    /\ LET out == IF encErr THEN <<>> ELSE Base64(pending) IN
       \E upto \in 0..Len(out), fileFails \in BOOLEAN :
          /\ fileFails => opened = "open"
          /\ kind = "bytes" => upto = Len(out)
          /\ dest' = dest \o SubSeq(out, 1, upto)
          /\ encErr' = (encErr \/ upto < Len(out))
          /\ closeErr' = (encErr' \/ fileFails)
    /\ pending' = <<>>
    /\ opened' = IF opened = "open" THEN "closed" ELSE opened
    /\ UNCHANGED <<kind, enc, wrote, sent, accepted, failed>>

SinkNext == SetEncoding \/ WriteCannotOpen \/ Write \/ Close
SinkSpec == SinkInit /\ [][SinkNext]_svars

-----------------------------------------------------------------------------
(* A Close without an error, when no Write failed, means that the destination
   holds exactly one encoding of everything Write took, however the bytes were
   cut into chunks; until then only an unfinished base64 group is missing. *)
NothingIsLost ==
    wrote /\ ~failed /\ ~closeErr =>
        dest = Encode(enc, IF enc = "base64" /\ ~closed THEN Whole(accepted) ELSE accepted)

(* A destination that failed is never covered up: raw counts stay exact, and a
   base64 stream with a hole fails on Close whatever was written after it. *)
LossIsReported ==
    /\ wrote /\ enc = "raw" => dest = accepted
    /\ failed /\ enc = "base64" /\ closed => closeErr

-----------------------------------------------------------------------------
(* The characters and what they stand for. *)
Char == {"old"} \union Nat \union (Nat \X (1..2)) \union (Seq(Nat) \X (1..4))

(* Between two calls: nothing is buffered before the first Write, only base64
   buffers, and the encoder holds exactly what its destination lacks. *)
SinkShape ==
    /\ SinkTypeOK
    /\ pending \in Seq(Nat) /\ accepted \in Seq(Nat) /\ dest \in Seq(Char)
Untouched == ~wrote => /\ accepted = <<>> /\ pending = <<>> /\ ~failed /\ ~encErr
                       /\ opened = "no" /\ (kind # "file" => dest = <<>>)
FileIsOpen == wrote /\ kind = "file" => opened # "no"
OnlyBase64Buffers == enc # "base64" => pending = <<>> /\ ~encErr
EncoderKnows ==
    /\ enc = "base64" /\ failed => encErr
    /\ enc = "base64" /\ encErr /\ ~closed => failed
    /\ enc = "base64" /\ ~closed /\ ~encErr => pending = Rest(accepted)
    /\ closed /\ encErr => closeErr
    /\ ~closed => ~closeErr
SinkIInv == SinkShape /\ Untouched /\ FileIsOpen /\ OnlyBase64Buffers /\ EncoderKnows
            /\ NothingIsLost /\ LossIsReported

=============================================================================
