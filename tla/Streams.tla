------------------------------ MODULE Streams -------------------------------
(***************************************************************************)
(* The adaptors of src/io.cpp in a chain, CharIn read by lines through     *)
(* LineReader, sent on through LineOut to a CharOut of limited size, and   *)
(* the chunks of Buffers (src/panglos/buffer.h) that a BufferOutput fills. *)
(* A character is an ordinary one or a delimiter.                          *)
(***************************************************************************)
EXTENDS Naturals, Sequences, SequencesExt, FiniteSetsExt

CONSTANTS
  Text,       \* the characters of the source
  Delimit,    \* those among them that end a line
  LineSize,   \* the size of LineOut
  OutSize,    \* the size of CharOut
  ChunkSize,  \* the size of the chunks of Buffers
  MaxChunks   \* bound: how many chunks are added

StreamsAssumption ==
  /\ LineSize \in Nat \ {0}
  /\ OutSize \in Nat \ {0}
  /\ ChunkSize \in Nat \ {0}

VARIABLES
  no_eol,   \* LineOut's flag
  idx,      \* CharIn: how much of the text is read
  line,     \* what LineOut holds
  sent,     \* all that was sent to CharOut
  data,     \* what CharOut keeps
  taken,    \* history: what LineReader returned, call by call
  chunks,   \* Buffers: each chunk's bytes and its out
  read,     \* history: what Buffers::read() returned
  stuck     \* add() holds the mutex and waits for it

streamVars == <<no_eol, idx, line, sent, data, taken, chunks, read, stuck>>

StreamsInit ==
  /\ no_eol \in BOOLEAN
  /\ idx = 0
  /\ line = <<>>
  /\ sent = <<>>
  /\ data = <<>>
  /\ taken = <<>>
  /\ chunks = <<>>
  /\ read = <<>>
  /\ stuck = FALSE

\* LineReader::rx() of n: up to and with the first delimiter, or the end.
LineOf(from, n) ==
  LET rest == SubSeq(Text, from + 1, Len(Text))
      end == SelectInSeq(rest, LAMBDA c : c \in Delimit)
      len == Min({n, Len(rest)} \cup (IF end = 0 THEN {} ELSE {end}))
  IN SubSeq(rest, 1, len)

\* CharOut::tx(): what does not fit is not taken.
CharTx(d, s) == SubSeq(d \o s, 1, Min({OutSize, Len(d) + Len(s)}))

\* Faulty: with no_eol the delimiter stays in the line.
LineStep_Eol(acc, c) ==
  LET full == Len(acc.line) >= LineSize
      with == Append(IF full THEN <<>> ELSE acc.line, c)
  IN [flushed |-> acc.flushed \o (IF full THEN acc.line ELSE <<>>) \o (IF c \in Delimit THEN with ELSE <<>>),
      line |-> IF c \in Delimit THEN <<>> ELSE with]

\* LineOut::tx() of one character, with the flush of a line that is full before
\* it and of one that it ends: what is flushed, and what is held.
LineStep(acc, c) ==
  LET full == Len(acc.line) >= LineSize
      before == IF full THEN acc.line ELSE <<>>
      with == Append(IF full THEN <<>> ELSE acc.line, c)
      eol == c \in Delimit
      after == IF ~eol THEN <<>> ELSE IF no_eol THEN Front(with) ELSE with
  IN [flushed |-> acc.flushed \o before \o after, line |-> IF eol THEN <<>> ELSE with]

LineTx(s) == FoldLeft(LineStep, [flushed |-> <<>>, line |-> line], s)

\* Reads up to n characters and sends them on.
CopyLine(n) ==
  /\ idx < Len(Text)
  /\ LET s == LineOf(idx, n)
         tx == LineTx(s)
     IN /\ idx' = idx + Len(s)
        /\ taken' = Append(taken, s)
        /\ line' = tx.line
        /\ sent' = sent \o tx.flushed
        /\ data' = CharTx(data, tx.flushed)
  /\ UNCHANGED <<no_eol, chunks, read, stuck>>

tx_flush ==
  /\ line # <<>>
  /\ line' = <<>>
  /\ sent' = sent \o line
  /\ data' = CharTx(data, line)
  /\ UNCHANGED <<no_eol, idx, taken, chunks, read, stuck>>

\* Buffers::add() of the next character of what CharOut got: to the last chunk,
\* if it has room.  Without a chunk, a BufferOutput adds one and then waits for
\* the mutex that add() holds.
Stored == FoldLeft(LAMBDA s, c : s \o c.bytes, read, [i \in DOMAIN chunks |-> [bytes |-> SubSeq(chunks[i].bytes, chunks[i].out + 1, Len(chunks[i].bytes))]])

BuffersAdd(force) ==
  /\ ~stuck
  /\ Len(Stored) < Len(data)
  /\ IF chunks = <<>>
       THEN stuck' = force /\ UNCHANGED chunks
       ELSE /\ Len(Last(chunks).bytes) < ChunkSize
            /\ chunks' = [chunks EXCEPT ![Len(chunks)].bytes = Append(@, data[Len(Stored) + 1])]
            /\ UNCHANGED stuck
  /\ UNCHANGED <<no_eol, idx, line, sent, data, taken, read>>

\* add_buffer(): called when the last is full().
add_buffer ==
  /\ ~stuck
  /\ Len(chunks) < MaxChunks
  /\ chunks # <<>> => Len(Last(chunks).bytes) = ChunkSize
  /\ chunks' = Append(chunks, [bytes |-> <<>>, out |-> 0])
  /\ UNCHANGED <<no_eol, idx, line, sent, data, taken, read, stuck>>

\* Buffers::read() of n from the chunks in order, each deleted once it is spent:
\* read to its size.
RECURSIVE ReadFrom(_, _)
ReadFrom(c, n) ==
  IF c = <<>> \/ n = 0 THEN [chunks |-> c, got |-> <<>>]
  ELSE LET h == Head(c)
           m == Min({n, Len(h.bytes) - h.out})
           got == SubSeq(h.bytes, h.out + 1, h.out + m)
           left == IF h.out + m = ChunkSize THEN Tail(c) ELSE <<[h EXCEPT !.out = @ + m]>> \o Tail(c)
       IN IF m = 0 THEN [chunks |-> c, got |-> <<>>]
          ELSE LET r == ReadFrom(left, n - m) IN [chunks |-> r.chunks, got |-> got \o r.got]

BuffersRead(n) ==
  /\ ~stuck
  /\ LET r == ReadFrom(chunks, n)
     IN r.got # <<>> /\ chunks' = r.chunks /\ read' = read \o r.got
  /\ UNCHANGED <<no_eol, idx, line, sent, data, taken, stuck>>

StreamsNext ==
  \/ \E n \in 1 .. 3 : CopyLine(n) \/ BuffersRead(n)
  \/ tx_flush \/ add_buffer
  \/ \E force \in BOOLEAN : BuffersAdd(force)

StreamsSpec == StreamsInit /\ [][StreamsNext]_streamVars

Kept(s) == IF no_eol THEN SelectSeq(s, LAMBDA c : c \notin Delimit) ELSE s

\* However the reads are cut, each stops at its delimiter, and what LineOut has
\* sent and holds is what was read, without the delimiters when it drops them;
\* CharOut keeps the beginning of it, and Buffers returns that in its order
\* over the ends of its chunks (src/io.cpp, src/panglos/buffer.h).
StreamIsKept ==
  /\ \A i \in DOMAIN taken : \A j \in 1 .. Len(taken[i]) - 1 : taken[i][j] \notin Delimit
  /\ sent \o line = Kept(FlattenSeq(taken))
  /\ IsPrefix(data, sent)
  /\ Len(data) = Min({OutSize, Len(sent)})
  /\ IsPrefix(Stored, data)
=============================================================================
