----------------------------- MODULE RingBuffer -----------------------------
(* The positions of csdr's Ringbuffer<T> and RingbufferReader<T>.  One      *)
(* writer, any number of readers, no flow control: the writer never looks   *)
(* at the readers, and a reader only knows the two positions, so one that   *)
(* is overtaken sees what is left of its lag after whole rounds.            *)
EXTENDS Integers

CONSTANTS
  Items,       \* The size that was asked for, in items of type T.
  ItemBytes,   \* sizeof(T).
  PageBytes    \* The size of a page of memory.

\* The size of the buffer: as many whole pages as the items need, mapped
\* twice in a row so that no access has to be split at the end.
allocate_mirrored(items, item, page) ==
  (((item * items + page - 1) \div page) * page) \div item

size == allocate_mirrored(Items, ItemBytes, PageBytes)

\* A page holds several items, and an even number of them for every T in use
\* (otherwise the constructor throws "unable to align buffer with page size").
ASSUME SizeAssumption ==
  /\ size \in Nat /\ size > 1 /\ size % 2 = 0
  /\ PageBytes % ItemBytes = 0

\* What may be written in one piece does not depend on the readers.
writeable == size - 1

advance(what, how_much) == (what + how_much) % size

\* Mutant: what is behind the end of the memory is left for the next look.
AvailableToTheEnd(write_pos, read_pos) ==
  IF write_pos >= read_pos THEN write_pos - read_pos ELSE size - read_pos

available(write_pos, read_pos) == (size + write_pos - read_pos) % size
=============================================================================
