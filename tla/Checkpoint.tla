------------------------------ MODULE Checkpoint ------------------------------
(***************************************************************************)
(* The binary checkpoint of the streaming decompositions, over any number  *)
(* of sessions: a data file of frames, appended one per finished chunk,    *)
(* and beside it one progress file per mode, "sequential" or "parallel",   *)
(* of fixed-width records.  A session loads both, replays the frames its   *)
(* progress file vouches for, and computes the remaining chunks, appending *)
(* a frame and then a record for each before it yields it.                 *)
(*                                                                         *)
(* A session can be abandoned at any yield, and the process can die inside *)
(* any append, leaving a prefix of what it was writing.  Files are only    *)
(* ever appended to.  The same operator is decomposed with the same        *)
(* chunk_size in every session, so a recomputed chunk has the same terms.  *)
(*                                                                         *)
(* A progress file is a sequence of bytes, and a record can be cut after   *)
(* any of its eight: what is appended next completes it, and is itself     *)
(* read at the wrong offset.                                               *)
(*                                                                         *)
(* The data file is a sequence of cells of eight bytes: one of the         *)
(* header's three fields (magic with version and dtype code, chunk index,  *)
(* term count) or a piece of the payload.  A cut inside a cell ends in     *)
(* nothing that a cut between cells does not end in.  At the end of the    *)
(* file it is a torn header or a torn payload too.  Under a later frame,   *)
(* either the header read there has a wrong magic, version or dtype code,  *)
(* which is an error; or a byte of "PKCP" stands in its chunk index, which *)
(* is then above 22 million and that of no record, or in its term count,   *)
(* which is then beyond the end of the file.                               *)
(***************************************************************************)
EXTENDS Integers, Sequences, FiniteSets

CONSTANTS
  NChunks,      \* len(chunk_starts)
  Terms,        \* chunk -> its number of terms
  TermCells,    \* cells per term: 3 where the index dtype is uint32
  Modes,        \* the modes the caller uses on this checkpoint path
  MayMix,       \* may it use one after the other on the same path?
  Radix,        \* the values of a byte: 256 in the code, fewer for TLC
  TornWrites,   \* may an append be cut short?
  Cuts,         \* after how many bytes a record may be cut: 1 .. 7
  MaxSessions   \* bound on the number of sessions

Chunks == 0 .. NChunks - 1

\* The numbers below this one fit into eight bytes.
Capacity == Radix * (Radix * (Radix * (Radix *
              (Radix * (Radix * (Radix * Radix))))))

ASSUME CheckpointAssumption ==
  /\ Radix \in Nat /\ Radix > 1
  /\ NChunks \in Nat \ {0} /\ NChunks <= Capacity
  /\ Terms \in [Chunks -> Nat]
  /\ TermCells \in Nat \ {0}
  /\ Modes \subseteq {"sequential", "parallel"}
  /\ MayMix \in BOOLEAN
  /\ TornWrites \in BOOLEAN
  /\ Cuts \subseteq 1 .. 7
  /\ MaxSessions \in Nat

VARIABLES
  \* The files.
  data,         \* checkpoint_path
  progress,     \* mode -> its progress file
  \* The session.
  mode,         \* which entry point runs
  phase,        \* where it stands
  skip,         \* the chunks it takes as completed
  todo,         \* the chunks it has still to compute
  held,         \* the chunk whose frame is written and whose record is not
  pos,          \* how much of data the reader has consumed
  sessions,     \* sessions so far
  \* What the properties observe.
  delivered,    \* what this session yielded, in order
  torn,         \* was any append cut short?
  spliced,      \* mode -> the records whose bytes are of two appends
  left,         \* what interrupted appends left behind
  leftAtStart   \* the same when this session loaded the files

files   == <<data, progress>>
session == <<mode, phase, skip, todo, held, pos, sessions>>
watched == <<delivered, torn, spliced, left, leftAtStart>>
vars    == <<files, session, watched>>

-----------------------------------------------------------------------------
(* The format.                                                             *)

Cell(kind, val) == [kind |-> kind, val |-> val]
Magic == Cell("magic", 0)

\* What a field reads as: a cell that is not a number gives one beyond every
\* index and every length.
Huge == -1
Number(cell) == IF cell.kind \in {"index", "count"} THEN cell.val ELSE Huge

HeaderCells == 3
PayloadCells(n) == n * TermCells

Payload(k) == [i \in 1 .. PayloadCells(Terms[k]) |-> Cell("term", k)]
Header(k) == <<Magic, Cell("index", k), Cell("count", Terms[k])>>
Frame(k) == Header(k) \o Payload(k)

\* _PROGRESS_RECORD, "<Q": the low byte first.
RecordSize == 8

Record(k) ==
  LET k1 == k \div Radix
      k2 == k1 \div Radix
      k3 == k2 \div Radix
      k4 == k3 \div Radix
      k5 == k4 \div Radix
      k6 == k5 \div Radix
      k7 == k6 \div Radix
  IN  << k % Radix, k1 % Radix, k2 % Radix, k3 % Radix,
         k4 % Radix, k5 % Radix, k6 % Radix, k7 % Radix >>

\* What the i-th eight bytes of a progress file read as.
Unpacked(p, i) ==
  LET b(j) == p[RecordSize * (i - 1) + j]
  IN  b(1) + Radix * (b(2) + Radix * (b(3) + Radix * (b(4) + Radix *
        (b(5) + Radix * (b(6) + Radix * (b(7) + Radix * b(8)))))))

\* _read_completed_indices: whole records only.
WholeRecords(p) == Len(p) \div RecordSize
Recorded(m) == {Unpacked(progress[m], i) : i \in 1 .. WholeRecords(progress[m])}

\* Fault: the resume point is one too far.
UpToNext(done) == UNION {0 .. j + 1 : j \in done}

\* range(max(completed) + 1)
UpToLast(done) == UNION {0 .. j : j \in done}

\* The chunks a session does not compute again, and the frames it accepts.
Completed(m) ==
  IF m = "parallel" THEN Recorded(m) ELSE UpToLast(Recorded(m))

-----------------------------------------------------------------------------
Init ==
  /\ data = <<>>
  /\ progress = [m \in Modes |-> <<>>]
  /\ mode \in Modes
  /\ phase = "down"
  /\ skip = {} /\ todo = {} /\ held = 0 /\ pos = 0 /\ sessions = 0
  /\ delivered = <<>>
  /\ torn = FALSE /\ spliced = [m \in Modes |-> {}]
  /\ left = "nothing" /\ leftAtStart = "nothing"

\* No session runs, and the caller may begin one.
MayStart(m) == /\ phase \in {"down", "complete", "raised"}
               /\ sessions < MaxSessions
               /\ MayMix \/ m = mode

\* _load_checkpoint, _load_parallel_checkpoint.
Start(m) ==
  /\ MayStart(m)
  /\ mode' = m
  /\ skip' = Completed(m)
  /\ todo' = Chunks \ skip'
  /\ phase' = IF Recorded(m) = {} THEN "run" ELSE "replay"
  /\ pos' = 0
  /\ sessions' = sessions + 1
  /\ delivered' = <<>>
  /\ leftAtStart' = left
  /\ UNCHANGED <<files, held, torn, spliced, left>>

\* set(range(next_chunk)) of a misread record can exhaust the memory.
StartExhausted(m) ==
  /\ MayStart(m)
  /\ m = "sequential" /\ ~(Recorded(m) \subseteq Chunks)
  /\ mode' = m
  /\ phase' = "raised"
  /\ sessions' = sessions + 1
  /\ delivered' = <<>>
  /\ leftAtStart' = left
  /\ UNCHANGED <<files, skip, todo, held, pos, torn, spliced, left>>

-----------------------------------------------------------------------------
(* Replay: _iter_checkpoint_frames.                                        *)

Rest == Len(data) - pos
Field(i) == data[pos + i]
Index == Number(Field(2))
Count == Number(Field(3))

HeaderThere == Rest >= HeaderCells
GoodMagic   == HeaderThere /\ Field(1) = Magic

PayloadThere ==
  /\ GoodMagic /\ Count # Huge
  /\ HeaderCells + PayloadCells(Count) <= Rest

\* Fault: valid_indices is ignored.
AnyIndex == Index \in Chunks

Valid == Index \in skip

\* Are the cells after the header the terms the chunk was written with?
Intact == /\ Index \in Chunks /\ Count = Terms[Index]
          /\ \A i \in 1 .. PayloadCells(Count) :
               Field(HeaderCells + i) = Cell("term", Index)

\* Fault: the reader steps over the index arrays only.
NextFrameShort == pos + HeaderCells + Count * (TermCells - 1)

NextFrame == pos + HeaderCells + PayloadCells(Count)

\* A complete, recorded frame: yield it.
ReplayFrame ==
  /\ phase = "replay"
  /\ PayloadThere /\ Valid
  /\ delivered' = Append(delivered, [chunk |-> Index, intact |-> Intact])
  /\ pos' = NextFrame
  /\ UNCHANGED <<files, mode, phase, skip, todo, held, sessions,
                 torn, spliced, left, leftAtStart>>

\* End of file, a torn header or payload, or a frame no record vouches for.
ReplayEnds ==
  /\ phase = "replay"
  /\ \/ ~HeaderThere
     \/ GoodMagic /\ ~PayloadThere
     \/ PayloadThere /\ ~Valid
  /\ phase' = "run"
  /\ UNCHANGED <<files, mode, skip, todo, held, pos, sessions, watched>>

\* A bad magic is "real damage": ValueError.  A huge count can also exhaust
\* the memory.
ReplayRaises ==
  /\ phase = "replay" /\ HeaderThere
  /\ Field(1) # Magic \/ Count = Huge
  /\ phase' = "raised"
  /\ UNCHANGED <<files, mode, skip, todo, held, pos, sessions, watched>>

-----------------------------------------------------------------------------
(* Computing the remaining chunks.                                         *)

\* Fault: the sequential generator takes whatever chunk comes first.
NextInAnyOrder(k) == k \in todo

\* The sequential generator computes in order; a pool completes in any order.
NextUp(k) == /\ k \in todo
             /\ mode = "sequential" => \A j \in todo : k <= j

\* What an append in the middle of the files does to a tail left before.
Bury == left' = IF left = "nothing" THEN "nothing" ELSE "buried"

\* Fault: the frame stays in a buffer when the record is written.
FrameNotFlushed(k) ==
  /\ phase = "run" /\ NextUp(k)
  /\ todo' = todo \ {k}
  /\ held' = k
  /\ phase' = "marking"
  /\ Bury
  /\ UNCHANGED <<files, mode, skip, pos, sessions, delivered, torn,
                 spliced, leftAtStart>>

\* _append_checkpoint_frame.
AppendFrame(k) ==
  /\ phase = "run" /\ NextUp(k)
  /\ data' = data \o Frame(k)
  /\ todo' = todo \ {k}
  /\ held' = k
  /\ phase' = "marking"
  /\ Bury
  /\ UNCHANGED <<progress, mode, skip, pos, sessions, delivered, torn,
                 spliced, leftAtStart>>

\* What is appended behind a torn record completes that one.
Splice ==
  spliced' = IF Len(progress[mode]) % RecordSize = 0 THEN spliced
             ELSE [spliced EXCEPT ![mode] =
                     @ \cup {WholeRecords(progress[mode]) + 1}]

\* _append_progress_record, then the yield.
AppendRecord ==
  /\ phase = "marking"
  /\ progress' = [progress EXCEPT ![mode] = @ \o Record(held)]
  /\ Splice
  /\ delivered' = Append(delivered, [chunk |-> held, intact |-> TRUE])
  /\ phase' = "run"
  /\ UNCHANGED <<data, mode, skip, todo, held, pos, sessions, torn, left,
                 leftAtStart>>

Finish ==
  /\ phase = "run" /\ todo = {}
  /\ phase' = "complete"
  /\ UNCHANGED <<files, mode, skip, todo, held, pos, sessions, watched>>

-----------------------------------------------------------------------------
(* Interruptions.                                                          *)

\* The caller closes the generator at a yield, or the process dies there, or
\* the consumer of the chunk raises.
Abandon ==
  /\ phase \in {"replay", "run"}
  /\ phase' = "down"
  /\ UNCHANGED <<files, mode, skip, todo, held, pos, sessions, watched>>

\* The process dies between the frame and its record.
DieUnmarked ==
  /\ phase = "marking"
  /\ phase' = "down"
  /\ left' = IF left = "buried" THEN "buried" ELSE "tail"
  /\ UNCHANGED <<files, mode, skip, todo, held, pos, sessions, delivered,
                 torn, spliced, leftAtStart>>

\* The process dies, or the disk fills, inside a frame.
TearFrame(k) ==
  /\ TornWrites /\ phase = "run" /\ NextUp(k)
  /\ \E t \in 1 .. Len(Frame(k)) - 1 : data' = data \o SubSeq(Frame(k), 1, t)
  /\ phase' = "down"
  /\ torn' = TRUE
  /\ left' = IF left = "nothing" THEN "tail" ELSE "buried"
  /\ UNCHANGED <<progress, mode, skip, todo, held, pos, sessions, delivered,
                 spliced, leftAtStart>>

\* ... or inside a record.
TearRecord ==
  /\ TornWrites /\ phase = "marking"
  /\ \E t \in Cuts :
       progress' = [progress EXCEPT ![mode] = @ \o SubSeq(Record(held), 1, t)]
  /\ Splice
  /\ phase' = "down"
  /\ torn' = TRUE
  /\ left' = IF left = "buried" THEN "buried" ELSE "tail"
  /\ UNCHANGED <<data, mode, skip, todo, held, pos, sessions, delivered,
                 leftAtStart>>

-----------------------------------------------------------------------------
Next ==
  \/ \E m \in Modes : Start(m) \/ StartExhausted(m)
  \/ ReplayFrame \/ ReplayEnds \/ ReplayRaises
  \/ \E k \in Chunks : AppendFrame(k) \/ TearFrame(k)
  \/ AppendRecord \/ Finish
  \/ Abandon \/ DieUnmarked \/ TearRecord

Spec == Init /\ [][Next]_vars

-----------------------------------------------------------------------------
(* Properties.                                                             *)

Cells   == [kind : {"magic", "index", "count", "term"}, val : Nat]
Yield   == [chunk : Nat, intact : BOOLEAN]
Bytes   == 0 .. Radix - 1
Leaving == {"nothing", "tail", "buried"}

TypeOK ==
  /\ data \in Seq(Cells)
  /\ progress \in [Modes -> Seq(Bytes)]
  /\ mode \in Modes
  /\ phase \in {"down", "replay", "run", "marking", "complete", "raised"}
  /\ skip \subseteq Nat /\ todo \subseteq Chunks /\ held \in Chunks
  /\ pos \in 0 .. Len(data)
  /\ sessions \in 0 .. MaxSessions
  /\ delivered \in Seq(Yield)
  /\ torn \in BOOLEAN /\ spliced \in [Modes -> SUBSET Nat]
  /\ left \in Leaving /\ leftAtStart \in Leaving

Times(k) == Cardinality({i \in 1 .. Len(delivered) : delivered[i].chunk = k})
AllIntact == \A i \in 1 .. Len(delivered) : delivered[i].intact

\* Is a whole frame of chunk k somewhere in the data file?
HasFrame(k) ==
  \E p \in 0 .. Len(data) - Len(Frame(k)) :
    \A i \in 1 .. Len(Frame(k)) : data[p + i] = Frame(k)[i]

\* "The frame is written before the progress marker": wherever the processes
\* died, a record vouches only for a chunk whose whole frame is in the file.
\* Only a record completed by the bytes of another append can name any other.
RecordedHasFrame ==
  \A m \in Modes : \A i \in 1 .. WholeRecords(progress[m]) \ spliced[m] :
    LET k == Unpacked(progress[m], i) IN k \in Chunks /\ HasFrame(k)

\* A resumed run is exact: after any number of abandoned sessions, and in the
\* first run after an append was interrupted, no chunk is yielded twice or
\* with wrong terms, the files are never taken for damaged, and a run that
\* ends normally has yielded every chunk.
ResumeIsExact ==
  leftAtStart # "buried" =>
    /\ \A k \in Chunks : Times(k) <= 1
    /\ AllIntact
    /\ phase # "raised"
    /\ phase = "complete" => \A k \in Chunks : Times(k) = 1

\* As long as every interruption fell between two writes, however many there
\* were, the reader stays on frame boundaries: it never yields wrong terms
\* and never reports damage.
AlignedUnlessTorn == ~torn => AllIntact /\ phase # "raised"

\* Interruptions between two writes, however many, lose nothing of a
\* sequential run: the frame nobody recorded is superseded by the next one.
SequentialLosesNothing ==
  ~torn /\ phase = "complete" /\ mode = "sequential" =>
    \A k \in Chunks : Times(k) >= 1

\* "In chunk order": a sequential resume interleaves nothing, replayed chunks
\* come first and the computed ones continue where they end.
SequentialInOrder ==
  mode = "sequential" /\ leftAtStart # "buried" =>
    \A i \in 1 .. Len(delivered) : delivered[i].chunk = i - 1

-----------------------------------------------------------------------------
(* What the repository says and the code does not do.                      *)

\* "No duplicate can reach a reader": stated for interruptions between two
\* writes.
NoDuplicate == ~torn => \A k \in Chunks : Times(k) <= 1

\* "Completed work replays on resume regardless of the order a pool returns
\* it in": stated for interruptions between two writes.
CompletedWorkReplays ==
  ~torn /\ phase = "complete" => \A k \in Chunks : Times(k) >= 1

\* "A torn tail means exactly 'that chunk was not recorded'": the run that
\* ends normally has yielded every chunk, with the terms it has.
TornTailMeansNotRecorded ==
  phase = "complete" => /\ \A k \in Chunks : Times(k) >= 1
                        /\ AllIntact

\* "Only the final record can ever be torn, and a torn tail means exactly
\* 'that chunk was not recorded'": what is read of a progress file is what was
\* recorded.
OnlyTheTailIsTorn == \A m \in Modes : \A k \in Recorded(m) \cap Chunks : HasFrame(k)

\* "So the two never collide": no append was interrupted, so both kinds of
\* session are exact.
ModesNeverCollide ==
  left = "nothing" /\ phase = "complete" => \A k \in Chunks : Times(k) = 1
=============================================================================
