------------------------------- MODULE Chain --------------------------------
(* Chains of csdr workers (csdr.chain.Chain over pycsdr modules), as values.*)
(* Neighbours are connected by a buffer: the first is given the buffer as   *)
(* its writer, the second a reader of it.  pycsdr refuses a reader or a     *)
(* writer of another format with a ValueError, and the call that tried it   *)
(* ends there: what it had still to do stays undone.                        *)
EXTENDS Naturals, Sequences, SequencesExt

CONSTANT None

\* A worker is known by its formats (and what else a chain wants to know).
\* links[1] says whether the first worker reads from the reader of the chain,
\* links[i + 1] whether worker i writes where worker i + 1 reads, the last
\* whether the last worker writes to the writer of the chain.  Of the reader
\* and the writer only the format matters.
NewChain(workers) ==
  [workers |-> workers, reader |-> None, writer |-> None, raised |-> FALSE,
   links |-> [i \in 1 .. Len(workers) + 1 |-> i # 1 /\ i # Len(workers) + 1]]

Empty(c) == c.workers = << >>
Flows(c) == ~Empty(c) /\ \A i \in DOMAIN c.links : c.links[i]

\* Sink_setReader and Source_setWriter.
Accepts(w, reader) == w["in"] = reader
Writes(w, writer)  == w["out"] = writer

\* The end of a chain that has no reader (writer) yet is not connected.
AtReader(c, w) == c.reader # None /\ Accepts(w, c.reader)
AtWriter(c, w) == c.writer # None /\ Writes(w, c.writer)
ReaderError(c, w) == c.reader # None /\ ~Accepts(w, c.reader)
WriterError(c, w) == c.writer # None /\ ~Writes(w, c.writer)

\* _connect() makes a buffer of the first one's format.
Connects(w1, w2) == Accepts(w2, w1["out"])

setReader(c, reader) ==
  IF Empty(c) THEN [c EXCEPT !.reader = reader, !.raised = FALSE]
  ELSE [c EXCEPT !.reader = reader, !.raised = ~Accepts(Head(c.workers), reader),
                 !.links[1] = Accepts(Head(c.workers), reader)]

setWriter(c, writer) ==
  IF Empty(c) THEN [c EXCEPT !.writer = writer, !.raised = FALSE]
  ELSE [c EXCEPT !.writer = writer, !.raised = ~Writes(Last(c.workers), writer),
                 !.links[Len(c.workers) + 1] = Writes(Last(c.workers), writer)]

\* Errors of inner connections are kept until both sides were tried; those
\* of the reader and the writer are not.
replace(c, i, w) ==
  LET n     == Len(c.workers)
      early == i = 1 /\ ReaderError(c, w)
      left  == IF i = 1 THEN AtReader(c, w) ELSE Connects(c.workers[i - 1], w)
      right == ~early /\ IF i = n THEN AtWriter(c, w) ELSE Connects(w, c.workers[i + 1])
      error == \/ early
               \/ i > 1 /\ ~left
               \/ IF i = n THEN WriterError(c, w) ELSE ~right
  IN  [c EXCEPT !.workers[i] = w, !.links[i] = left, !.links[i + 1] = right, !.raised = error]

append(c, w) ==
  LET n     == Len(c.workers)
      left  == IF n = 0 THEN AtReader(c, w) ELSE Connects(Last(c.workers), w)
      error == IF n = 0 THEN ReaderError(c, w) ELSE ~left
  IN  [c EXCEPT !.workers = Append(@, w),
                !.links = SubSeq(@, 1, n) \o <<left, ~error /\ AtWriter(c, w)>>,
                !.raised = error \/ WriterError(c, w)]

\* Mutant: the new first worker is not given the reader of the chain.
InsertLoose(c, w) ==
  LET right == IF Empty(c) THEN AtWriter(c, w) ELSE Connects(w, Head(c.workers))
  IN  [c EXCEPT !.workers = <<w>> \o @,
                !.links = <<FALSE, right>> \o Tail(@),
                !.raised = ~right]

insert(c, w) ==
  LET n     == Len(c.workers)
      right == IF n = 0 THEN AtWriter(c, w) ELSE Connects(w, Head(c.workers))
      error == IF n = 0 THEN WriterError(c, w) ELSE ~right
  IN  [c EXCEPT !.workers = <<w>> \o @,
                !.links = <<~error /\ AtReader(c, w), right>> \o Tail(@),
                !.raised = error \/ ReaderError(c, w)]

\* The neighbours of the worker that goes are connected; an end that has
\* nobody left is not.
remove(c, i) ==
  LET rest == RemoveAt(c.workers, i)
      n    == Len(rest)
      link == IF n = 0 THEN FALSE
              ELSE IF i = 1 THEN AtReader(c, rest[1])
              ELSE IF i = n + 1 THEN AtWriter(c, rest[n])
              ELSE Connects(rest[i - 1], rest[i])
      error == IF n = 0 THEN FALSE
               ELSE IF i = 1 THEN ReaderError(c, rest[1])
               ELSE IF i = n + 1 THEN WriterError(c, rest[n])
               ELSE ~link
  IN  [c EXCEPT !.workers = rest, !.raised = error,
                !.links = SubSeq(@, 1, i - 1) \o <<link>> \o SubSeq(@, i + 2, n + 2)]

getOutputFormat(c) == Last(c.workers)["out"]
=============================================================================
