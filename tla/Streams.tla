-------------------------------- MODULE Streams --------------------------------
(***************************************************************************)
(* stream (Stream.h, Stream.cpp) and its implementations: array_stream over *)
(* a fixed buffer, memory_stream over a vector that grows, file_stream over *)
(* a file opened by the C library.  Bytes are newlines or letters; a read   *)
(* past the bytes of a buffer yields Stray.                                 *)
(***************************************************************************)
EXTENDS Integers, Sequences

CONSTANTS
  Letters,
  Chunk,      \* bytes that read_line() asks for at a time, 1024 in the code
  Size,       \* length of the buffer of an array_stream
  SizeWord,   \* 2^w, the width of size_t
  MaxLength   \* bound: bytes in a stream that grows

StreamsAssumption ==
  Chunk \in Nat \ {0} /\ Size \in Nat /\ MaxLength \in Nat /\ SizeWord > 2 * (Size + MaxLength + Chunk)

Newline == "newline"
Stray == "stray"
Bytes == Letters \cup {Newline}

Array == "array_stream"
Memory == "memory_stream"
File == "file_stream"

VARIABLES
  stream,  \* which one, whether it may be written and read, its bytes and position
  answer   \* the last read: what, from where, what it returned, and if it threw

streamVars == <<stream, answer>>

Silent == [read |-> "nothing", from |-> 0, bytes |-> <<>>, threw |-> FALSE]

Stream(kind, writable, readable, bytes) ==
  [kind |-> kind, writable |-> writable, readable |-> readable, bytes |-> bytes, position |-> 0]

Texts == UNION {[1 .. n -> Bytes] : n \in 0 .. Size}

\* Constructors: a view of bytes, an empty memory_stream, a file opened rb or wb+.
StreamsInit ==
  /\ stream \in {Stream(Array, writable, TRUE, text) : writable \in BOOLEAN, text \in [1 .. Size -> Bytes]}
        \cup {Stream(Memory, TRUE, TRUE, <<>>), Stream(File, TRUE, TRUE, <<>>)}
        \cup {Stream(File, FALSE, TRUE, text) : text \in Texts}
  /\ answer = Silent

Length(s) == Len(s.bytes)

\* What memcpy copies from the buffer behind the position.
Copied(s, n) ==
  [i \in 1 .. n |-> IF s.position + i <= Length(s) THEN s.bytes[s.position + i] ELSE Stray]

Smaller(a, b) == IF a < b THEN a ELSE b

\* _buffer.size() - _position, of unsigned numbers, or what fread() finds left.
Available(s) ==
  IF s.kind = File THEN IF s.position < Length(s) THEN Length(s) - s.position ELSE 0
  ELSE (Length(s) - s.position) % SizeWord

\* read(buffer of n bytes, partial): the bytes it returns, the stream after it
\* and whether it throws.  array_stream and memory_stream advance by n in any case.
Read(s, n, partial) ==
  LET got == IF partial \/ s.kind = File THEN Smaller(Available(s), n) ELSE n
      short == IF s.kind = File THEN ~partial /\ got < n
               ELSE ~partial /\ s.position + n > Length(s)
  IN  IF short /\ s.kind # File THEN [bytes |-> <<>>, stream |-> s, threw |-> TRUE]
      ELSE [bytes |-> Copied(s, got), threw |-> short,
            stream |-> [s EXCEPT !.position = @ + (IF s.kind = File THEN got ELSE n)]]

\* seek() of the buffers checks the position it leaves.
SeekThrows(s) == s.kind # File /\ s.position > Length(s)
Sought(s, position) == IF SeekThrows(s) THEN s ELSE [s EXCEPT !.position = position]

NewlineIn(bytes) == IF \E i \in DOMAIN bytes : bytes[i] = Newline
                    THEN CHOOSE i \in DOMAIN bytes :
                           bytes[i] = Newline /\ \A j \in 1 .. i - 1 : bytes[j] # Newline
                    ELSE 0

\* position() - length + (newLine - buffer.data()) + 1
ReadOnFrom(s, read, newLine) == s.position - read + newLine

RECURSIVE LineRead(_, _)
\* The loop of read_line(): chunks until one has a newline or nothing is left.
LineRead(s, line) ==
  LET chunk == Read(s, Chunk, TRUE)
      newLine == NewlineIn(chunk.bytes)
      after == chunk.stream
  IN  IF chunk.bytes = <<>> THEN [line |-> line, stream |-> after, threw |-> FALSE]
      ELSE IF newLine = 0 THEN LineRead(after, line \o chunk.bytes)
      ELSE [line |-> line \o SubSeq(chunk.bytes, 1, newLine - 1),
            stream |-> Sought(after, ReadOnFrom(after, Len(chunk.bytes), newLine)),
            threw |-> SeekThrows(after)]

-------------------------------------------------------------------------------

\* write(): past its end an array_stream throws and a memory_stream grows.
Write(byte) ==
  /\ stream.writable /\ stream.position <= Length(stream) /\ Length(stream) < MaxLength
  /\ LET at == stream.position + 1
         bytes == IF at <= Length(stream) THEN [stream.bytes EXCEPT ![at] = byte]
                  ELSE Append(stream.bytes, byte)
     IN  IF stream.kind = Array /\ at > Length(stream) THEN UNCHANGED stream
         ELSE stream' = [stream EXCEPT !.bytes = bytes, !.position = at]
  /\ answer' = Silent

Seek(position) ==
  /\ stream' = Sought(stream, position)
  /\ answer' = Silent

\* read() of n bytes, all or none.
ReadAll(n) ==
  LET read == Read(stream, n, FALSE)
  IN  /\ stream' = read.stream
      /\ answer' = [read |-> "bytes", from |-> stream.position, bytes |-> read.bytes, threw |-> read.threw]

\* read_line() of a file.  Not of a buffer: there a partial read advances the position by the
\* room it was given, whatever it read (ArrayStream.cpp:53), past the end, and the seek that
\* follows throws.
ReadLine ==
  LET read == LineRead(stream, <<>>)
  IN  /\ stream.kind = File
      /\ stream' = read.stream
      /\ answer' = [read |-> "line", from |-> stream.position, bytes |-> read.line, threw |-> read.threw]

\* read_to_end(): a buffer of length() bytes, read without partial.
ReadToEnd ==
  LET read == Read(stream, Length(stream), FALSE)
  IN  /\ stream' = read.stream
      /\ answer' = [read |-> "rest", from |-> stream.position, bytes |-> read.bytes, threw |-> read.threw]

StreamsNext ==
  \/ \E byte \in Bytes : Write(byte)
  \/ \E position \in 0 .. Length(stream) : Seek(position)
  \/ \E n \in 1 .. 2 : ReadAll(n)
  \/ ReadLine
  \/ ReadToEnd

-------------------------------------------------------------------------------

\* A reference: the line that begins at the position, and what follows it.
RestOf(position) == SubSeq(stream.bytes, position + 1, Length(stream))
LineAt(position) ==
  LET rest == RestOf(position)
      newLine == NewlineIn(rest)
  IN  IF newLine = 0 THEN rest ELSE SubSeq(rest, 1, newLine - 1)

\* However lines and chunks overlap, read_line() of a file takes one line and its
\* newline, so that a loop of read_line() sees every line once.
LinesComeInOrder ==
  answer.read = "line" =>
    /\ ~answer.threw /\ answer.bytes = LineAt(answer.from)
    /\ stream.position = Smaller(Length(stream), answer.from + Len(answer.bytes) + 1)

\* read_to_end() gives what is left or throws: it throws behind the beginning, where
\* the stream has fewer bytes left than length().
RestOrRefused ==
  answer.read = "rest" =>
    /\ ~answer.threw => answer.bytes = RestOf(answer.from)
    /\ answer.threw = (answer.from > 0 /\ stream.bytes # <<>>)
===============================================================================
